---- MODULE Spec2Model ----
(***************************************************************************)
(* Model of the compliance reconciliation engine: the register-item        *)
(* extractor (extract_compliance_items), the matcher (compare_results, in  *)
(* its POAM-mode and CSV-mode variants) and the categorizer                *)
(* (categorize_findings).                                                  *)
(*                                                                         *)
(* Python values are modelled as tuples.  A text (str) is the tuple of its *)
(* characters, one single-character string per element, so that lower(),   *)
(* strip(), the "in" substring test and re.sub are computed character by   *)
(* character.  None, True and False are one-element tuples holding a       *)
(* longer name, which keeps them apart from every text.  A dict and a      *)
(* pydantic model are functions from key names to values.                  *)
(***************************************************************************)
EXTENDS Integers, Sequences, FiniteSets, TLC

VARIABLES
    pc,                  \* position of the run: which call has returned
    mode,                \* which variant of the code has run: "poam" or "csv"
    scan_results,        \* List[ComplianceScanResult] given to compare_results
    smartsheet_results,  \* List[ComplianceItem] given to compare_results
    result,              \* the ComparisonResult
    findings,            \* the dict returned by categorize_findings
    compliance_sheet_data, \* the register sheet given to extract_compliance_items
    client_controls,     \* the ClientControls given to extract_compliance_items
    compliance_items,    \* the list extract_compliance_items returns
    raised,              \* TRUE when extract_compliance_items raised instead
    rationale,           \* a rationale text and what the placeholder loop makes of it
    raw_value,           \* the should_fix cell given to normalize_boolean
    normalized_value,    \* what normalize_boolean returns for it
    control_sheet_data,  \* the control sheet given to extract_client_controls
    selected_client,     \* the client given to extract_client_controls
    placeholder_dict,    \* the dict client_controls.to_dict() returns
    poam_rows,           \* the rows of the POAM sheet, from the second row on
    benchmarks_to_run,   \* the benchmarks asked of parse_poam, or of the run
    grouped_results,     \* the dict parse_poam returns
    skipped_findings,    \* the list of skipped rows parse_poam reports on
    run_index,           \* how many benchmarks the loop of run_app has processed
    run_findings,        \* the scan_results the loop of run_app got, per benchmark
    df                   \* the table load_scan_results reads from the file

vars ==
    <<pc, mode, scan_results, smartsheet_results, result, findings,
      compliance_sheet_data, client_controls, compliance_items, raised,
      rationale, raw_value, normalized_value, control_sheet_data,
      selected_client, placeholder_dict, poam_rows, benchmarks_to_run, grouped_results,
      skipped_findings, run_index, run_findings, df>>

\* the variables of each part of the program
matching == <<scan_results, smartsheet_results, result, findings>>

extraction ==
    <<compliance_sheet_data, client_controls, compliance_items, raised>>

substituting == <<rationale>>

normalizing == <<raw_value, normalized_value>>

controlling == <<control_sheet_data, selected_client, placeholder_dict>>

parsing ==
    <<poam_rows, benchmarks_to_run, grouped_results, skipped_findings,
      run_index, run_findings>>

loading == <<df>>

\* a part that does not run keeps the values it starts with
LoadingIdle == df = <<>>

SubstitutingIdle == rationale = <<>>

NormalizingIdle == raw_value = <<>> /\ normalized_value = <<>>

ControllingIdle ==
    /\ control_sheet_data = <<>>
    /\ selected_client = <<>>
    /\ placeholder_dict = <<>>

ParsingIdle ==
    /\ poam_rows = <<>>
    /\ benchmarks_to_run = <<>>
    /\ grouped_results = <<>>
    /\ skipped_findings = <<>>
    /\ run_index = 0
    /\ run_findings = <<>>

----------------------------------------------------------------------------
(* Bounds of the model *)

MaxScan == 2

MaxSheet == 2

MaxRows == 2

MaxText == 4

MaxControlRows == 2

MaxPoamRows == 2

MaxConfigRows == 1

MaxLoadRows == 2

----------------------------------------------------------------------------
(* Python values *)

PyNone == <<"None_">>

PyTrue == <<"True_">>

PyFalse == <<"False_">>

PyBool(b) == IF b THEN PyTrue ELSE PyFalse

\* an int cell value, by its digits
PyInt(digits) == <<"int_">> \o digits

IsInt(v) == Len(v) > 0 /\ v[1] = "int_"

\* bool(v): None, False, the empty text and 0 are falsy
Truthy(v) == v # PyNone /\ v # PyFalse /\ v # <<>> /\ v # PyInt(<<"0">>)

\* str(v)
PyStr(v) ==
    IF v = PyNone THEN <<"N", "o", "n", "e">>
    ELSE IF v = PyTrue THEN <<"T", "r", "u", "e">>
    ELSE IF v = PyFalse THEN <<"F", "a", "l", "s", "e">>
    ELSE IF IsInt(v) THEN Tail(v)
    ELSE v

\* a or b
PyOr(a, b) == IF Truthy(a) THEN a ELSE b

UpperCase ==
    <<"A", "B", "C", "D", "E", "F", "G", "H", "I", "J", "K", "L", "M",
      "N", "O", "P", "Q", "R", "S", "T", "U", "V", "W", "X", "Y", "Z">>

LowerCase ==
    <<"a", "b", "c", "d", "e", "f", "g", "h", "i", "j", "k", "l", "m",
      "n", "o", "p", "q", "r", "s", "t", "u", "v", "w", "x", "y", "z">>

LowerChar(c) ==
    IF \E i \in DOMAIN UpperCase : UpperCase[i] = c
    THEN LowerCase[CHOOSE i \in DOMAIN UpperCase : UpperCase[i] = c]
    ELSE c

\* s.lower()
Lower(s) == [i \in 1..Len(s) |-> LowerChar(s[i])]

Whitespace == {" ", "\t", "\n"}

\* s.strip()
Strip(s) ==
    LET keep == {i \in DOMAIN s : s[i] \notin Whitespace}
    IN  IF keep = {} THEN <<>>
        ELSE SubSeq(s, CHOOSE i \in keep : \A j \in keep : i <= j,
                       CHOOSE i \in keep : \A j \in keep : j <= i)

\* sub in s
Contains(s, sub) ==
    \E i \in 0..(Len(s) - Len(sub)) : SubSeq(s, i + 1, i + Len(sub)) = sub

\* any(indicator in s for indicator in indicators)
ContainsAny(s, indicators) ==
    \E k \in DOMAIN indicators : Contains(s, indicators[k])

\* d.get(key, default)
Get(d, key, default) == IF key \in DOMAIN d THEN d[key] ELSE default

\* d.update(u), as a new dict
Update(d, u) == u @@ d

\* the elements of a list
Range(s) == {s[i] : i \in DOMAIN s}

\* the lists of at most n elements of S
SeqsUpTo(S, n) == UNION {[1..k -> S] : k \in 0..n}

\* the orders in which a "for x in S" loop may visit the set S
Orderings(S) ==
    {o \in [1..Cardinality(S) -> S] : \A i, j \in DOMAIN o : o[i] = o[j] => i = j}

\* [x for x in s if keep[x]], in the order of s
RECURSIVE SelectIdx(_, _, _)
SelectIdx(s, keep, i) ==
    IF i > Len(s) THEN <<>>
    ELSE (IF i \in keep THEN <<s[i]>> ELSE <<>>) \o SelectIdx(s, keep, i + 1)

----------------------------------------------------------------------------
(* Data models *)

\* the fields of ComplianceItem and their defaults
ComplianceItemDefaults ==
    [compliance_id |-> PyNone, finding_description |-> PyNone,
     srg_solution |-> PyNone, deviation_type |-> PyNone,
     deviation_rationale |-> PyNone, supporting_documents |-> PyNone,
     deviation_status |-> PyNone, should_fix |-> PyNone,
     comments |-> PyNone, status |-> PyNone, severity |-> PyNone,
     hostname |-> PyNone, replaced_placeholders |-> {},
     original_rationale |-> PyNone]

\* ComplianceItem(**data): every field is optional and defaults to None; a
\* keyword that is no field of the model is ignored
ComplianceItem(data) ==
    [f \in DOMAIN ComplianceItemDefaults |->
        IF f \in DOMAIN data THEN data[f] ELSE ComplianceItemDefaults[f]]

\* ComplianceScanResult(**data): compliance_id and status are required; the
\* POAM processors also pass poam_id and srg_solution
ComplianceScanResult(data) ==
    Update([severity |-> PyNone, hostname |-> PyNone, description |-> PyNone,
            details |-> PyNone, poam_id |-> PyNone, srg_solution |-> PyNone],
           data)

\* ComparisonResult(scan_count=..., smartsheet_count=...)
ComparisonResult(scan_count, smartsheet_count) ==
    [matched_items |-> <<>>, unmatched_scan_items |-> <<>>,
     unmatched_smartsheet_items |-> <<>>, scan_count |-> scan_count,
     smartsheet_count |-> smartsheet_count, match_count |-> 0]

----------------------------------------------------------------------------
(* Inputs: the scan results and register items the runs are checked on *)

idX1 == <<"X", "1">>

idX1Padded == <<" ", "X", "1">>

idY2 == <<"Y", "2">>

idZ3 == <<"Z", "3">>

idN4 == <<"N", "4">>

txtFail == <<"F", "a", "i", "l">>

txtFailed == <<"[", "F", "A", "I", "L", "E", "D", "]">>

txtPassed == <<"[", "P", "A", "S", "S", "E", "D", "]">>

txtPendingReview ==
    <<"P", "e", "n", "d", "i", "n", "g", " ", "R", "e", "v", "i", "e", "w">>

txtApproved == <<"A", "p", "p", "r", "o", "v", "e", "d">>

txtDraft == <<"d", "r", "a", "f", "t">>

txtPendingApproval ==
    <<"P", "e", "n", "d", "i", "n", "g", " ", "A", "p", "p", "r", "o", "v", "a", "l">>

txtApprovedPendingReview ==
    <<"A", "p", "p", "r", "o", "v", "e", "d", ",", " ",
      "p", "e", "n", "d", "i", "n", "g", " ", "r", "e", "v", "i", "e", "w">>

txtInProgress == <<"I", "n", " ", "P", "r", "o", "g", "r", "e", "s", "s">>

txtUnderReview ==
    <<"U", "n", "d", "e", "r", " ", "R", "e", "v", "i", "e", "w">>

txtBlank == <<" ">>

txtHost == <<"h", "1">>

txtPoam == <<"V", "-", "7">>

txtScanDesc == <<"s", "d">>

txtRegDesc == <<"r", "d">>

txtPlan == <<"f", "i", "x">>

\* Findings: non-empty, trimmed identifiers, as every normalizer produces them
ScanPool ==
    {ComplianceScanResult([compliance_id |-> f[1], status |-> f[2],
                           hostname |-> txtHost, poam_id |-> txtPoam,
                           description |-> txtScanDesc, srg_solution |-> f[3]]) :
        f \in {<<idX1, txtFail, txtPlan>>, <<idX1, txtFailed, PyNone>>,
               <<idY2, txtPassed, txtPlan>>}}

\* Register items: identifier None, empty, padded and duplicated; one
\* deviation_status / should_fix combination per rule of the categorizer
SheetPool ==
    {ComplianceItem([compliance_id |-> r[1], deviation_status |-> r[2],
                     should_fix |-> r[3], finding_description |-> r[4]]) :
        r \in {<<idX1, txtPendingReview, PyNone, PyNone>>,
               <<idX1, txtApproved, PyTrue, txtRegDesc>>,
               <<idX1, txtDraft, PyFalse, PyNone>>,
               <<idX1, txtApprovedPendingReview, PyFalse, txtRegDesc>>,
               <<idX1Padded, txtPendingApproval, PyFalse, PyNone>>,
               <<PyNone, PyNone, PyNone, PyNone>>,
               <<<<>>, txtBlank, PyFalse, PyNone>>,
               <<idY2, txtUnderReview, PyTrue, PyNone>>,
               <<idZ3, txtInProgress, PyNone, txtRegDesc>>}}

----------------------------------------------------------------------------
(* compare_results, POAM mode *)

\* str(item.compliance_id).strip()
IdKeyPoam(item) == Strip(PyStr(item.compliance_id))

\* {str(item.compliance_id).strip() for item in items if item.compliance_id}
IdSetPoam(items) ==
    {IdKeyPoam(items[i]) : i \in {j \in DOMAIN items : Truthy(items[j].compliance_id)}}

\* scan_ids.intersection(smartsheet_ids)
MatchingIdsPoam(scan, sheet) == IdSetPoam(scan) \cap IdSetPoam(sheet)

\* faulty variant: the last item with the identifier is taken, not the first
FirstPoam_Last(items, comp_id) ==
    LET hits == {i \in DOMAIN items : IdKeyPoam(items[i]) = comp_id}
    IN  IF hits = {} THEN 0
        ELSE CHOOSE i \in hits : \A j \in hits : j <= i

\* next((item for item in items if str(item.compliance_id).strip() == comp_id), None):
\* the position of the first such item, 0 standing for None
FirstPoam(items, comp_id) ==
    LET hits == {i \in DOMAIN items : IdKeyPoam(items[i]) = comp_id}
    IN  IF hits = {} THEN 0
        ELSE CHOOSE i \in hits : \A j \in hits : i <= j

\* faulty variant: the combined Status is left as the register item's own status field
CombinedItemPoam_RegisterStatus(scan_item, smartsheet_item) ==
    Update(smartsheet_item,
           [Status |-> smartsheet_item.status,
            Severity |-> scan_item.severity,
            Hostname |-> scan_item.hostname,
            srg_solution |-> scan_item.srg_solution]
           @@ ("POAM ID" :> scan_item.poam_id)
           @@ ("Finding Description" :>
                  PyOr(smartsheet_item.finding_description, scan_item.description)))

\* faulty variant: the combined 'Finding Description' is always the scan
\* item's description
CombinedItemPoam_ScanDescription(scan_item, smartsheet_item) ==
    Update(smartsheet_item,
           [Status |-> scan_item.status,
            Severity |-> scan_item.severity,
            Hostname |-> scan_item.hostname,
            srg_solution |-> scan_item.srg_solution]
           @@ ("POAM ID" :> scan_item.poam_id)
           @@ ("Finding Description" :> scan_item.description))

\* combined_item = smartsheet_item.dict(); combined_item.update({...})
CombinedItemPoam(scan_item, smartsheet_item) ==
    Update(smartsheet_item,
           [Status |-> scan_item.status,
            Severity |-> scan_item.severity,
            Hostname |-> scan_item.hostname,
            srg_solution |-> scan_item.srg_solution]
           @@ ("POAM ID" :> scan_item.poam_id)
           @@ ("Finding Description" :>
                  PyOr(smartsheet_item.finding_description, scan_item.description)))

\* faulty variant: one combined item per scan result with a matching identifier,
\* instead of one per matching identifier
MatchedItemsPoam_PerScanItem(scan, sheet, order) ==
    LET hits == SelectIdx(scan, {i \in DOMAIN scan :
                                    IdKeyPoam(scan[i]) \in Range(order)}, 1)
    IN  [k \in DOMAIN hits |->
            CombinedItemPoam(hits[k], sheet[FirstPoam(sheet, IdKeyPoam(hits[k]))])]

\* the loop over matching_ids, visited in the order given
RECURSIVE MatchedItemsPoam(_, _, _)
MatchedItemsPoam(scan, sheet, order) ==
    IF order = <<>> THEN <<>>
    ELSE LET scan_item == FirstPoam(scan, Head(order))
             smartsheet_item == FirstPoam(sheet, Head(order))
         IN  (IF scan_item # 0 /\ smartsheet_item # 0
              THEN <<CombinedItemPoam(scan[scan_item], sheet[smartsheet_item])>>
              ELSE <<>>)
             \o MatchedItemsPoam(scan, sheet, Tail(order))

\* faulty variant: the unmatched list is the whole list
UnmatchedPoam_All(items, matching_ids) == items

\* [item for item in items if str(item.compliance_id).strip() not in matching_ids]
UnmatchedPoam(items, matching_ids) ==
    SelectIdx(items, {i \in DOMAIN items : IdKeyPoam(items[i]) \notin matching_ids}, 1)

\* compare_results(scan_results, smartsheet_results), the set matching_ids
\* being iterated in the order given
CompareResultsPoamOf(scan, sheet, order) ==
    LET matching_ids == MatchingIdsPoam(scan, sheet)
    IN  [ComparisonResult(Len(scan), Len(sheet)) EXCEPT
            !.match_count = Cardinality(matching_ids),
            !.matched_items = MatchedItemsPoam(scan, sheet, order),
            !.unmatched_scan_items = UnmatchedPoam(scan, matching_ids),
            !.unmatched_smartsheet_items = UnmatchedPoam(sheet, matching_ids)]

----------------------------------------------------------------------------
(* compare_results, CSV mode *)

approval_indicators ==
    << <<"a", "p", "p", "r", "o", "v", "e", "d">>, <<"a">>,
       <<"a", "c", "c", "e", "p", "t">>,
       <<"a", "c", "c", "e", "p", "t", "a", "b", "l", "e">>,
       <<"c", "o", "m", "p", "l", "i", "a", "n", "t">>,
       <<"c", "o", "m", "p">>, <<"p", "a", "s", "s">>,
       <<"p", "a", "s", "s", "e", "d">> >>

\* analyze_status(status): the pair (status text, is_approved)
analyze_status(status) ==
    IF ~Truthy(status)
    THEN <<<<"N", "o", " ", "S", "t", "a", "t", "u", "s">>, PyFalse>>
    ELSE LET status_str == Lower(PyStr(status))
         IN  <<status_str, PyBool(ContainsAny(status_str, approval_indicators))>>

\* needs_review_status(status_str)
needs_review_status(status_str) ==
    IF ~Truthy(status_str) THEN FALSE
    ELSE IF Contains(PyStr(status_str), <<"[", "P", "A", "S", "S", "E", "D", "]">>)
            \/ Contains(PyStr(status_str), <<"[", "P", "A", "S", "S", "]">>)
         THEN FALSE
    ELSE IF Contains(PyStr(status_str), <<"[", "F", "A", "I", "L", "E", "D", "]">>)
            \/ Contains(PyStr(status_str), <<"[", "W", "A", "R", "N", "I", "N", "G", "]">>)
         THEN TRUE
    ELSE FALSE

\* {item.compliance_id for item in scan_results}
ScanIdsCsv(scan) == {scan[i].compliance_id : i \in DOMAIN scan}

\* {item.compliance_id for item in smartsheet_results if item.compliance_id}
SmartsheetIdsCsv(sheet) ==
    {sheet[i].compliance_id : i \in {j \in DOMAIN sheet : Truthy(sheet[j].compliance_id)}}

\* scan_ids.intersection(smartsheet_ids)
MatchingIdsCsv(scan, sheet) == ScanIdsCsv(scan) \cap SmartsheetIdsCsv(sheet)

\* next(item for item in items if item.compliance_id == comp_id): its position
FirstCsv(items, comp_id) ==
    LET hits == {i \in DOMAIN items : items[i].compliance_id = comp_id}
    IN  CHOOSE i \in hits : \A j \in hits : i <= j

\* combined_item = {...}
CombinedItemCsv(comp_id, scan_item, smartsheet_item) ==
    [Status |-> scan_item.status,
     Severity |-> scan_item.severity,
     Hostname |-> scan_item.hostname]
    @@ ("Compliance ID" :> comp_id)
    @@ ("Finding Description" :>
           PyOr(smartsheet_item.finding_description, scan_item.description))
    @@ ("SRG Solution" :> smartsheet_item.srg_solution)
    @@ ("Deviation Type" :> smartsheet_item.deviation_type)
    @@ ("Deviation Rationale" :> smartsheet_item.deviation_rationale)
    @@ ("Supporting Documents" :> smartsheet_item.supporting_documents)
    @@ ("Deviation Status" :> smartsheet_item.deviation_status)
    @@ ("Analyzed Status" :> analyze_status(smartsheet_item.deviation_status)[1])
    @@ ("Is Approved" :> analyze_status(smartsheet_item.deviation_status)[2])
    @@ ("Should Fix" :> smartsheet_item.should_fix)

\* the loop over matching_ids, visited in the order given
RECURSIVE MatchedItemsCsv(_, _, _)
MatchedItemsCsv(scan, sheet, order) ==
    IF order = <<>> THEN <<>>
    ELSE <<CombinedItemCsv(Head(order), scan[FirstCsv(scan, Head(order))],
                           sheet[FirstCsv(sheet, Head(order))])>>
         \o MatchedItemsCsv(scan, sheet, Tail(order))

\* faulty variant: the matched scan results are not filtered out
AllUnmatchedCsv_NoFilter(scan, matching_ids) == scan

\* [item for item in scan_results if item.compliance_id not in matching_ids]
AllUnmatchedCsv(scan, matching_ids) ==
    SelectIdx(scan, {i \in DOMAIN scan : scan[i].compliance_id \notin matching_ids}, 1)

UnmatchedFallbackCap == 100

\* the filter for failed and warning items, and its fallback all_unmatched[:100]
UnmatchedScanCsv(scan, matching_ids) ==
    LET all_unmatched == AllUnmatchedCsv(scan, matching_ids)
        filtered == SelectIdx(all_unmatched,
                        {i \in DOMAIN all_unmatched :
                            needs_review_status(all_unmatched[i].status)}, 1)
    IN  IF filtered = <<>> /\ all_unmatched # <<>>
        THEN SubSeq(all_unmatched, 1,
                    IF Len(all_unmatched) < UnmatchedFallbackCap
                    THEN Len(all_unmatched) ELSE UnmatchedFallbackCap)
        ELSE filtered

\* [item for item in smartsheet_results
\*  if item.compliance_id and item.compliance_id not in matching_ids]
UnmatchedSmartsheetCsv(sheet, matching_ids) ==
    SelectIdx(sheet, {i \in DOMAIN sheet :
                         /\ Truthy(sheet[i].compliance_id)
                         /\ sheet[i].compliance_id \notin matching_ids}, 1)

\* compare_results(scan_results, smartsheet_results, csv_path), the set
\* matching_ids being iterated in the order given
CompareResultsCsvOf(scan, sheet, order) ==
    LET matching_ids == MatchingIdsCsv(scan, sheet)
    IN  [ComparisonResult(Len(scan), Len(sheet)) EXCEPT
            !.match_count = Cardinality(matching_ids),
            !.matched_items = MatchedItemsCsv(scan, sheet, order),
            !.unmatched_scan_items = UnmatchedScanCsv(scan, matching_ids),
            !.unmatched_smartsheet_items = UnmatchedSmartsheetCsv(sheet, matching_ids)]

----------------------------------------------------------------------------
(* categorize_findings *)

approved_indicators ==
    << <<"a", "p", "p", "r", "o", "v", "e", "d">>, <<"a">>,
       <<"a", "c", "c", "e", "p", "t">>,
       <<"c", "o", "m", "p", "l", "i", "a", "n", "t">>, <<"p", "a", "s", "s">> >>

review_indicators ==
    << <<"r", "e", "v", "i", "e", "w">>, <<"p", "e", "n", "d", "i", "n", "g">> >>

srcMatched == <<"M", "a", "t", "c", "h", "e", "d">>

srcSmartsheetOnly ==
    <<"S", "m", "a", "r", "t", "s", "h", "e", "e", "t", " ", "O", "n", "l", "y">>

\* item_dict = item if isinstance(item, dict) else item.dict(); item_dict['Source'] = source
ItemDict(item, source) ==
    IF Truthy(source) THEN Update(item, "Source" :> source) ELSE item

\* str(item_dict.get('deviation_status', '')).lower().strip()
StatusText(item_dict) ==
    Strip(Lower(PyStr(Get(item_dict, "deviation_status", <<>>))))

\* faulty variant: "if" where the code has "elif": a should-fix item is also bucketed
\* by its status text
categorize_item_NoElif(fnd, item, source) ==
    LET item_dict == ItemDict(item, source)
        status == StatusText(item_dict)
        should_fix_flag == Get(item_dict, "should_fix", PyFalse)
        first == IF Truthy(should_fix_flag)
                 THEN [fnd EXCEPT !.should_fix = Append(@, item_dict)]
                 ELSE fnd
    IN  IF ContainsAny(status, approved_indicators)
        THEN [first EXCEPT !.approved = Append(@, item_dict)]
        ELSE IF ContainsAny(status, review_indicators)
        THEN [first EXCEPT !.review = Append(@, item_dict)]
        ELSE IF Truthy(should_fix_flag) THEN first
        ELSE [first EXCEPT !.unassessed = Append(@, item_dict)]

\* faulty variant: the status text is looked at before the should_fix flag
categorize_item_StatusFirst(fnd, item, source) ==
    LET item_dict == ItemDict(item, source)
        status == StatusText(item_dict)
        should_fix_flag == Get(item_dict, "should_fix", PyFalse)
    IN  IF ContainsAny(status, approved_indicators)
        THEN [fnd EXCEPT !.approved = Append(@, item_dict)]
        ELSE IF Truthy(should_fix_flag)
        THEN [fnd EXCEPT !.should_fix = Append(@, item_dict)]
        ELSE IF ContainsAny(status, review_indicators)
        THEN [fnd EXCEPT !.review = Append(@, item_dict)]
        ELSE [fnd EXCEPT !.unassessed = Append(@, item_dict)]

\* faulty variant: the review rule is tried before the approval rule
categorize_item_ReviewFirst(fnd, item, source) ==
    LET item_dict == ItemDict(item, source)
        status == StatusText(item_dict)
        should_fix_flag == Get(item_dict, "should_fix", PyFalse)
    IN  IF Truthy(should_fix_flag)
        THEN [fnd EXCEPT !.should_fix = Append(@, item_dict)]
        ELSE IF ContainsAny(status, review_indicators)
        THEN [fnd EXCEPT !.review = Append(@, item_dict)]
        ELSE IF ContainsAny(status, approved_indicators)
        THEN [fnd EXCEPT !.approved = Append(@, item_dict)]
        ELSE [fnd EXCEPT !.unassessed = Append(@, item_dict)]

\* faulty variant: an item is a should-fix item unless its flag is False
categorize_item_NoneIsTrue(fnd, item, source) ==
    LET item_dict == ItemDict(item, source)
        status == StatusText(item_dict)
        should_fix_flag == Get(item_dict, "should_fix", PyFalse)
    IN  IF should_fix_flag # PyFalse
        THEN [fnd EXCEPT !.should_fix = Append(@, item_dict)]
        ELSE IF ContainsAny(status, approved_indicators)
        THEN [fnd EXCEPT !.approved = Append(@, item_dict)]
        ELSE IF ContainsAny(status, review_indicators)
        THEN [fnd EXCEPT !.review = Append(@, item_dict)]
        ELSE [fnd EXCEPT !.unassessed = Append(@, item_dict)]

\* categorize_item(item, source): the buckets after the call
categorize_item(fnd, item, source) ==
    LET item_dict == ItemDict(item, source)
        status == StatusText(item_dict)
        should_fix_flag == Get(item_dict, "should_fix", PyFalse)
    IN  IF Truthy(should_fix_flag)
        THEN [fnd EXCEPT !.should_fix = Append(@, item_dict)]
        ELSE IF ContainsAny(status, approved_indicators)
        THEN [fnd EXCEPT !.approved = Append(@, item_dict)]
        ELSE IF ContainsAny(status, review_indicators)
        THEN [fnd EXCEPT !.review = Append(@, item_dict)]
        ELSE [fnd EXCEPT !.unassessed = Append(@, item_dict)]

\* for item in items: categorize_item(item, source=source)
RECURSIVE CategorizeAll(_, _, _)
CategorizeAll(fnd, items, source) ==
    IF items = <<>> THEN fnd
    ELSE CategorizeAll(categorize_item(fnd, Head(items), source), Tail(items), source)

NoFindings ==
    [approved |-> <<>>, review |-> <<>>, should_fix |-> <<>>,
     unassessed |-> <<>>, missing_from_scm |-> <<>>]

\* categorize_findings(comparison): the dict it returns
categorize_findings(comparison) ==
    CategorizeAll(
        CategorizeAll([NoFindings EXCEPT
                          !.missing_from_scm = comparison.unmatched_scan_items],
                      comparison.matched_items, srcMatched),
        comparison.unmatched_smartsheet_items, srcSmartsheetOnly)

\* the matched items are dicts, so categorize_item writes 'Source' into the
\* very objects comparison.matched_items holds
MatchedAfterCategorize(comparison) ==
    [i \in DOMAIN comparison.matched_items |->
        ItemDict(comparison.matched_items[i], srcMatched)]

----------------------------------------------------------------------------
(* re.sub(pattern, repl, text, flags=re.IGNORECASE) for the pattern        *)
(* '\[' + re.escape(placeholder) + '\]'                                    *)

\* the outcome of a call that raised re.error
ReError == <<"re.error_">>

\* the outcome of a call that raised TypeError
TypeError == <<"TypeError_">>

Backslash == "\\"

ASCIILetters == Range(UpperCase) \cup Range(LowerCase)

Digits == {"0", "1", "2", "3", "4", "5", "6", "7", "8", "9"}

\* the element of a parsed template that stands for the whole match, \g<0>
WholeMatch == "\\g<0>"

\* the character a template escape of an ASCII letter stands for; \a, \b and
\* \v name control characters that have no string notation here
TemplateEscape(c) ==
    CASE c = "n" -> "\n"
      [] c = "t" -> "\t"
      [] c = "r" -> "\r"
      [] c = "f" -> "\f"
      [] c = "a" -> "\\x07"
      [] c = "b" -> "\\x08"
      [] c = "v" -> "\\x0b"

\* The replacement template of re.sub: repl is not taken literally.  A
\* backslash starts an escape: \\ is one backslash, \n \t \r \f \a \b \v are
\* control characters, \g<0> is the matched text, \0 is the NUL character, any
\* other ASCII letter is "bad escape", a digit 1-9 or another \g<...> is a
\* reference to a group the pattern does not have, a backslash at the end is
\* "bad escape (end of pattern)"; all of those raise re.error.  A backslash
\* before any other character stays, with that character.  (Octal escapes of
\* more than one digit are not among the values the model is run on.)
RECURSIVE parse_template(_, _)
parse_template(repl, i) ==
    IF i > Len(repl) THEN <<>>
    ELSE IF repl[i] # Backslash
    THEN LET rest == parse_template(repl, i + 1)
         IN  IF rest = ReError THEN ReError ELSE <<repl[i]>> \o rest
    ELSE IF i = Len(repl) THEN ReError
    ELSE LET c == repl[i + 1]
             group0 == i + 4 <= Len(repl) /\ SubSeq(repl, i + 2, i + 4) = <<"<", "0", ">">>
             piece == IF c = Backslash THEN <<Backslash>>
                      ELSE IF c = "g" THEN (IF group0 THEN <<WholeMatch>> ELSE ReError)
                      ELSE IF c \in {"n", "t", "r", "f", "a", "b", "v"}
                      THEN <<TemplateEscape(c)>>
                      ELSE IF c \in ASCIILetters THEN ReError
                      ELSE IF c = "0" THEN <<"\\x00">>
                      ELSE IF c \in Digits THEN ReError
                      ELSE <<Backslash, c>>
             rest == IF piece = ReError THEN ReError
                     ELSE parse_template(repl, IF c = "g" THEN i + 5 ELSE i + 2)
         IN  IF rest = ReError THEN ReError ELSE piece \o rest

\* the text a parsed template yields for one match
RECURSIVE expand_template(_, _, _)
expand_template(template, match, k) ==
    IF k > Len(template) THEN <<>>
    ELSE (IF template[k] = WholeMatch THEN match ELSE <<template[k]>>)
         \o expand_template(template, match, k + 1)

\* the pattern matches the text at position i: the literal token, any case
MatchAt(text, token, i) ==
    /\ i + Len(token) - 1 <= Len(text)
    /\ Lower(SubSeq(text, i, i + Len(token) - 1)) = Lower(token)

\* the leftmost, non-overlapping matches are replaced, the rest is copied
RECURSIVE SubFrom(_, _, _, _)
SubFrom(text, token, template, i) ==
    IF i > Len(text) THEN <<>>
    ELSE IF MatchAt(text, token, i)
    THEN expand_template(template, SubSeq(text, i, i + Len(token) - 1), 1)
         \o SubFrom(text, token, template, i + Len(token))
    ELSE <<text[i]>> \o SubFrom(text, token, template, i + 1)

\* faulty variant: only the first match is replaced, as with count=1
re_sub_FirstOnly(placeholder, value, text) ==
    LET template == parse_template(value, 1)
        token == <<"[">> \o placeholder \o <<"]">>
        hits == {i \in DOMAIN text : MatchAt(text, token, i)}
        first == CHOOSE i \in hits : \A j \in hits : i <= j
    IN  IF template = ReError THEN ReError
        ELSE IF hits = {} THEN text
        ELSE SubSeq(text, 1, first - 1)
             \o expand_template(template, SubSeq(text, first, first + Len(token) - 1), 1)
             \o SubSeq(text, first + Len(token), Len(text))

\* re.sub(f'\\[{re.escape(placeholder)}\\]', value, text, flags=re.IGNORECASE);
\* the template is parsed, and may raise, whether or not the pattern matches;
\* a text that is no str raises TypeError
re_sub(placeholder, value, text) ==
    LET template == parse_template(value, 1)
    IN  IF template = ReError THEN ReError
        ELSE IF IsInt(text) THEN TypeError
        ELSE SubFrom(text, <<"[">> \o placeholder \o <<"]">>, template, 1)

\* text.replace(old, new)
RECURSIVE Replace(_, _, _, _)
Replace(text, old, new, i) ==
    IF i > Len(text) THEN <<>>
    ELSE IF i + Len(old) - 1 <= Len(text) /\ SubSeq(text, i, i + Len(old) - 1) = old
    THEN new \o Replace(text, old, new, i + Len(old))
    ELSE <<text[i]>> \o Replace(text, old, new, i + 1)

----------------------------------------------------------------------------
(* ClientControls *)

\* ControlValue(placeholder=..., value=...)
ControlValue(placeholder, value) == [placeholder |-> placeholder, value |-> value]

\* faulty variant: a key keeps the value written first
to_dict_FirstWins(controls) ==
    LET firsts == {i \in DOMAIN controls :
                      \A j \in 1..(i - 1) : controls[j].placeholder # controls[i].placeholder}
        pairs == [i \in DOMAIN controls |->
                     <<controls[i].placeholder, controls[i].value>>]
    IN  SelectIdx(pairs, firsts, 1)

\* ClientControls.to_dict(): {control.placeholder: control.value for control in
\* self.controls}, as the list of its (key, value) pairs in the order of
\* items(): a key stands where it was first inserted and holds the value
\* written last
to_dict(controls) ==
    LET firsts == {i \in DOMAIN controls :
                      \A j \in 1..(i - 1) : controls[j].placeholder # controls[i].placeholder}
        last(i) == CHOOSE j \in DOMAIN controls :
                      /\ controls[j].placeholder = controls[i].placeholder
                      /\ \A k \in DOMAIN controls :
                            controls[k].placeholder = controls[i].placeholder => k <= j
        pairs == [i \in DOMAIN controls |->
                     <<controls[i].placeholder, controls[last(i)].value>>]
    IN  SelectIdx(pairs, firsts, 1)

----------------------------------------------------------------------------
(* extract_compliance_items: the column mapping and normalize_boolean *)

\* the field a column title is mapped to by the POAM-mode variant, "" for none
FieldOfTitlePoam(title) ==
    LET column_title == Strip(Lower(title))
    IN  IF Contains(column_title, <<"c", "o", "m", "p", "l", "i", "a", "n", "c", "e", " ", "i", "d">>) THEN "compliance_id"
        ELSE IF Contains(column_title, <<"f", "i", "n", "d", "i", "n", "g", " ", "d", "e", "s", "c", "r", "i", "p", "t", "i", "o", "n">>)
        THEN "finding_description"
        ELSE IF Contains(column_title, <<"s", "r", "g", " ", "s", "o", "l", "u", "t", "i", "o", "n">>) THEN "srg_solution"
        ELSE IF Contains(column_title, <<"d", "e", "v", "i", "a", "t", "i", "o", "n", " ", "t", "y", "p", "e">>) THEN "deviation_type"
        ELSE IF /\ Contains(column_title, <<"d", "e", "v", "i", "a", "t", "i", "o", "n", " ", "r", "a", "t", "i", "o", "n", "a", "l", "e">>)
                /\ ~Contains(column_title, <<"s", "t", "a", "t", "u", "s">>)
        THEN "deviation_rationale"
        ELSE IF Contains(column_title, <<"s", "u", "p", "p", "o", "r", "t", "i", "n", "g", " ", "d", "o", "c", "u", "m", "e", "n", "t", "s">>)
        THEN "supporting_documents"
        ELSE IF Contains(column_title, <<"d", "e", "v", "i", "a", "t", "i", "o", "n", " ", "r", "a", "t", "i", "o", "n", "a", "l", "e", " ", "s", "t", "a", "t", "u", "s">>)
        THEN "deviation_status"
        ELSE IF Contains(column_title, <<"s", "h", "o", "u", "l", "d", " ", "f", "i", "x">>) THEN "should_fix"
        ELSE IF Contains(column_title, <<"c", "o", "m", "m", "e", "n", "t", "s">>) THEN "comments"
        ELSE IF Contains(column_title, <<"a", "d", "d", "i", "t", "i", "o", "n", "a", "l", " ", "c", "o", "n", "t", "e", "x", "t">>)
        THEN "additional_context"
        ELSE ""

\* the field a column title is mapped to by the CSV-mode variant, "" for none
FieldOfTitleCsv(title) ==
    LET column_title == Lower(title)
    IN  IF \/ Contains(column_title, <<"c", "o", "m", "p", "l", "i", "a", "n", "c", "e", " ", "i", "d">>)
           \/ Contains(column_title, <<"c", "o", "m", "p", "l", "i", "a", "n", "c", "e", "i", "d">>)
        THEN "compliance_id"
        ELSE IF Contains(column_title, <<"f", "i", "n", "d", "i", "n", "g", " ", "d", "e", "s", "c", "r", "i", "p", "t", "i", "o", "n">>)
        THEN "finding_description"
        ELSE IF Contains(column_title, <<"s", "r", "g", " ", "s", "o", "l", "u", "t", "i", "o", "n">>) THEN "srg_solution"
        ELSE IF Contains(column_title, <<"d", "e", "v", "i", "a", "t", "i", "o", "n", " ", "t", "y", "p", "e">>) THEN "deviation_type"
        ELSE IF /\ Contains(column_title, <<"d", "e", "v", "i", "a", "t", "i", "o", "n", " ", "r", "a", "t", "i", "o", "n", "a", "l", "e">>)
                /\ ~Contains(column_title, <<"s", "t", "a", "t", "u", "s">>)
        THEN "deviation_rationale"
        ELSE IF Contains(column_title, <<"s", "u", "p", "p", "o", "r", "t", "i", "n", "g", " ", "d", "o", "c", "u", "m", "e", "n", "t", "s">>)
        THEN "supporting_documents"
        ELSE IF \/ Contains(column_title, <<"d", "e", "v", "i", "a", "t", "i", "o", "n", " ", "r", "a", "t", "i", "o", "n", "a", "l", "e", " ", "s", "t", "a", "t", "u", "s">>)
                \/ /\ Contains(column_title, <<"s", "t", "a", "t", "u", "s">>)
                   /\ Contains(column_title, <<"d", "e", "v", "i", "a", "t", "i", "o", "n">>)
        THEN "deviation_status"
        ELSE IF Contains(column_title, <<"s", "h", "o", "u", "l", "d", " ", "f", "i", "x">>) THEN "should_fix"
        ELSE IF Contains(column_title, <<"c", "o", "m", "m", "e", "n", "t", "s">>) THEN "comments"
        ELSE ""

\* column_ids after the loop over the columns: a field holds the id of the
\* last column whose title is mapped to it
ColumnIds(columns, variant) ==
    LET field(k) == IF variant = "poam" THEN FieldOfTitlePoam(columns[k].title)
                    ELSE FieldOfTitleCsv(columns[k].title)
        fields == {field(k) : k \in DOMAIN columns} \ {""}
        last(f) == CHOOSE k \in DOMAIN columns :
                      /\ field(k) = f
                      /\ \A j \in DOMAIN columns : field(j) = f => j <= k
    IN  [f \in fields |-> columns[last(f)].id]

true_values ==
    <<<<"t", "r", "u", "e">>, <<"y", "e", "s">>, <<"y">>, <<"1">>, <<"c", "h", "e", "c", "k", "e", "d">>, <<"x">>, <<"o", "n">>, <<"t">>>>

false_values ==
    <<<<"f", "a", "l", "s", "e">>, <<"n", "o">>, <<"n">>, <<"0">>, <<"u", "n", "c", "h", "e", "c", "k", "e", "d">>, <<>>, <<"o", "f", "f">>, <<"f">>>>

\* faulty variant: a text that is no token counts as false
normalize_boolean_UnknownFalse(value) ==
    IF value = PyNone THEN PyNone
    ELSE IF value \in {PyTrue, PyFalse} THEN value
    ELSE IF Lower(Strip(PyStr(value))) \in Range(true_values) THEN PyTrue
    ELSE PyFalse

\* normalize_boolean(value), the same in both variants
normalize_boolean(value) ==
    IF value = PyNone THEN PyNone
    ELSE IF value \in {PyTrue, PyFalse} THEN value
    ELSE LET str_value == Lower(Strip(PyStr(value)))
         IN  IF str_value \in Range(true_values) THEN PyTrue
             ELSE IF str_value \in Range(false_values) THEN PyFalse
             ELSE PyNone

----------------------------------------------------------------------------
(* extract_compliance_items, POAM mode *)

\* row_values_by_col_id.get(col_id): the value of the row's last cell of that
\* column, None when the row has no such cell
CellValue(row, col_id) ==
    LET hits == {k \in DOMAIN row.cells : row.cells[k].column_id = col_id}
    IN  IF hits = {} THEN PyNone
        ELSE row.cells[CHOOSE k \in hits : \A j \in hits : j <= k].value

\* for placeholder, value in placeholder_mapping.items():
\*     updated_text = re.sub(pattern, value, updated_text, flags=re.IGNORECASE)
RECURSIVE ReplacePlaceholdersPoam(_, _, _)
ReplacePlaceholdersPoam(placeholder_mapping, updated_text, k) ==
    IF k > Len(placeholder_mapping) THEN updated_text
    ELSE LET new_text == re_sub(placeholder_mapping[k][1],
                                placeholder_mapping[k][2], updated_text)
         IN  IF new_text \in {ReError, TypeError} THEN new_text
             ELSE ReplacePlaceholdersPoam(placeholder_mapping, new_text, k + 1)

\* item_data of one row: every mapped field is written, from the cell or None
ItemDataPoam(row, column_ids, placeholder_mapping) ==
    [field_name \in DOMAIN column_ids |->
        LET cell_value == CellValue(row, column_ids[field_name])
        IN  IF field_name = "should_fix" THEN normalize_boolean(cell_value)
            ELSE IF field_name = "deviation_rationale"
            THEN ReplacePlaceholdersPoam(placeholder_mapping,
                                         PyOr(cell_value, <<>>), 1)
            ELSE cell_value]

\* The loop over the rows.  re.sub is outside the try block, so its re.error
\* or TypeError ends the call.  ComplianceItem(**item_data) is inside it: an
\* int in a text field is turned into its text by a pydantic that coerces,
\* and is a validation error, caught here, by one that does not.
RECURSIVE ExtractRowsPoam(_, _, _, _, _)
ExtractRowsPoam(rows, column_ids, placeholder_mapping, coerces, k) ==
    IF k > Len(rows) THEN [raised |-> FALSE, items |-> <<>>]
    ELSE LET item_data == ItemDataPoam(rows[k], column_ids, placeholder_mapping)
             rest == ExtractRowsPoam(rows, column_ids, placeholder_mapping,
                                     coerces, k + 1)
             text_fields == (DOMAIN item_data \cap DOMAIN ComplianceItemDefaults)
                               \ {"compliance_id", "should_fix"}
         IN  IF /\ "deviation_rationale" \in DOMAIN item_data
                /\ item_data.deviation_rationale \in {ReError, TypeError}
             THEN [raised |-> TRUE, items |-> <<>>]
             ELSE IF rest.raised THEN rest
             ELSE IF Get(item_data, "compliance_id", PyNone) = PyNone THEN rest
             ELSE IF ~coerces /\ \E f \in text_fields : IsInt(item_data[f])
             THEN rest
             ELSE [rest EXCEPT !.items =
                      <<ComplianceItem(
                           [f \in DOMAIN item_data |->
                               IF f = "compliance_id" \/ IsInt(item_data[f])
                               THEN PyStr(item_data[f]) ELSE item_data[f]])>> \o @]

extract_compliance_items_poam(sheet_data, controls, coerces) ==
    ExtractRowsPoam(sheet_data.rows, ColumnIds(sheet_data.columns, "poam"),
                    to_dict(controls.controls), coerces, 1)

----------------------------------------------------------------------------
(* extract_compliance_items, CSV mode *)

\* the placeholder loop, which also records the placeholders that changed
\* the text
RECURSIVE ReplacePlaceholdersCsv(_, _, _, _)
ReplacePlaceholdersCsv(placeholder_mapping, updated_text, replaced, k) ==
    IF k > Len(placeholder_mapping)
    THEN [text |-> updated_text, replaced |-> replaced]
    ELSE LET new_text == re_sub(placeholder_mapping[k][1],
                                placeholder_mapping[k][2], updated_text)
         IN  IF new_text \in {ReError, TypeError}
             THEN [text |-> new_text, replaced |-> replaced]
             ELSE ReplacePlaceholdersCsv(placeholder_mapping, new_text,
                     IF new_text # updated_text
                     THEN replaced \cup {placeholder_mapping[k][1]}
                     ELSE replaced, k + 1)

cloud_provider_names ==
    <<<<"c", "l", "o", "u", "d", "_", "p", "r", "o", "v", "i", "d", "e", "r">>,
      <<"c", "l", "o", "u", "d", " ", "p", "r", "o", "v", "i", "d", "e", "r">>,
      <<"c", "l", "o", "u", "d", "p", "r", "o", "v", "i", "d", "e", "r">>>>

idRhel010030 == <<"R", "H", "E", "L", "-", "0", "8", "-", "0", "1", "0", "0", "3", "0">>

tokCloudProvider == <<"[", "c", "l", "o", "u", "d", " ", "p", "r", "o", "v", "i", "d", "e", "r", "]">>

\* the value of the first placeholder named like the cloud provider, or None
CloudProviderValue(placeholder_mapping) ==
    LET hits == {k \in DOMAIN placeholder_mapping :
                    Lower(placeholder_mapping[k][1]) \in Range(cloud_provider_names)}
    IN  IF hits = {} THEN PyNone
        ELSE placeholder_mapping[CHOOSE k \in hits : \A j \in hits : k <= j][2]

\* the special handling of RHEL-08-010030
CloudProviderSpecialCase(compliance_id, updated_text, placeholder_mapping) ==
    IF /\ compliance_id = idRhel010030
       /\ Contains(updated_text, tokCloudProvider)
       /\ Truthy(CloudProviderValue(placeholder_mapping))
    THEN Replace(updated_text, tokCloudProvider,
                 CloudProviderValue(placeholder_mapping), 1)
    ELSE updated_text

\* compliance_id as read ahead of the fields: the value of the first cell of
\* the identifier column
RowComplianceId(row, column_ids) ==
    LET hits == {k \in DOMAIN row.cells :
                    /\ "compliance_id" \in DOMAIN column_ids
                    /\ row.cells[k].column_id = column_ids.compliance_id}
    IN  IF hits = {} THEN PyNone
        ELSE row.cells[CHOOSE k \in hits : \A j \in hits : k <= j].value

\* The loop over the cells of one row.  acc holds item_data,
\* replaced_placeholders, original_rationale and whether re.sub, or
\* original_text.strip() on an int, raised.
\* Column ids are unique, so a cell belongs to at most one field.
RECURSIVE RowCellsCsv(_, _, _, _, _)
RowCellsCsv(row, k, column_ids, placeholder_mapping, acc) ==
    IF k > Len(row.cells) \/ acc.raised THEN acc
    ELSE LET cell == row.cells[k]
             fields == {f \in DOMAIN column_ids : column_ids[f] = cell.column_id}
             field_name == CHOOSE f \in fields : TRUE
             original_text == PyOr(cell.value, <<>>)
             sub == ReplacePlaceholdersCsv(placeholder_mapping, original_text,
                                           acc.replaced_placeholders, 1)
             updated_text == CloudProviderSpecialCase(
                                 RowComplianceId(row, column_ids), sub.text,
                                 placeholder_mapping)
             next ==
                 IF fields = {} THEN acc
                 ELSE IF field_name = "deviation_rationale"
                 THEN (IF IsInt(original_text)
                       THEN [acc EXCEPT !.raised = TRUE]
                       ELSE IF Strip(original_text) = <<>>
                       THEN [acc EXCEPT
                               !.original_rationale = original_text,
                               !.item_data = (field_name :> original_text) @@ @]
                       ELSE IF sub.text = ReError
                       THEN [acc EXCEPT !.raised = TRUE]
                       ELSE [acc EXCEPT
                               !.original_rationale = original_text,
                               !.replaced_placeholders = sub.replaced,
                               !.item_data = (field_name :> updated_text) @@ @])
                 ELSE IF field_name = "should_fix"
                 THEN [acc EXCEPT !.item_data =
                         (field_name :> normalize_boolean(cell.value)) @@ @]
                 ELSE [acc EXCEPT !.item_data = (field_name :> cell.value) @@ @]
         IN  RowCellsCsv(row, k + 1, column_ids, placeholder_mapping, next)

\* the loop over the rows; there is no try block in this variant
RECURSIVE ExtractRowsCsv(_, _, _, _)
ExtractRowsCsv(rows, column_ids, placeholder_mapping, k) ==
    IF k > Len(rows) THEN [raised |-> FALSE, items |-> <<>>]
    ELSE LET acc == RowCellsCsv(rows[k], 1, column_ids, placeholder_mapping,
                       [item_data |-> <<>>, replaced_placeholders |-> {},
                        original_rationale |-> PyNone, raised |-> FALSE])
             rest == ExtractRowsCsv(rows, column_ids, placeholder_mapping, k + 1)
         IN  IF acc.raised THEN [raised |-> TRUE, items |-> <<>>]
             ELSE IF rest.raised THEN rest
             ELSE IF /\ "compliance_id" \in DOMAIN acc.item_data
                     /\ Truthy(acc.item_data.compliance_id)
             THEN [rest EXCEPT !.items =
                      <<ComplianceItem(
                           [replaced_placeholders |-> acc.replaced_placeholders,
                            original_rationale |-> acc.original_rationale]
                           @@ acc.item_data)>> \o @]
             ELSE rest

extract_compliance_items_csv(sheet_data, controls) ==
    ExtractRowsCsv(sheet_data.rows, ColumnIds(sheet_data.columns, "csv"),
                   to_dict(controls.controls), 1)

----------------------------------------------------------------------------
(* The run: compare_results in one of its two variants, then categorize_findings *)

ExtractionIdle ==
    /\ compliance_sheet_data = [columns |-> <<>>, rows |-> <<>>]
    /\ client_controls = [client |-> <<>>, controls |-> <<>>]
    /\ compliance_items = <<>>
    /\ raised = FALSE

Init ==
    /\ LoadingIdle
    /\ pc = "start"
    /\ mode = "none"
    /\ scan_results \in SeqsUpTo(ScanPool, MaxScan)
    /\ smartsheet_results \in SeqsUpTo(SheetPool, MaxSheet)
    /\ result = ComparisonResult(0, 0)
    /\ findings = NoFindings
    /\ ExtractionIdle
    /\ SubstitutingIdle
    /\ NormalizingIdle
    /\ ControllingIdle
    /\ ParsingIdle

CompareResultsPoam ==
    /\ pc = "start"
    /\ \E order \in Orderings(MatchingIdsPoam(scan_results, smartsheet_results)) :
          result' = CompareResultsPoamOf(scan_results, smartsheet_results, order)
    /\ mode' = "poam"
    /\ pc' = "compared"
    /\ UNCHANGED <<loading, scan_results, smartsheet_results, findings, extraction,
                 substituting, normalizing, controlling, parsing>>

CompareResultsCsv ==
    /\ pc = "start"
    /\ \E order \in Orderings(MatchingIdsCsv(scan_results, smartsheet_results)) :
          result' = CompareResultsCsvOf(scan_results, smartsheet_results, order)
    /\ mode' = "csv"
    /\ pc' = "compared"
    /\ UNCHANGED <<loading, scan_results, smartsheet_results, findings, extraction,
                 substituting, normalizing, controlling, parsing>>

\* export_to_excel calls categorize_findings on the POAM-mode comparison
CategorizeFindings ==
    /\ pc = "compared"
    /\ mode = "poam"
    /\ findings' = categorize_findings(result)
    /\ result' = [result EXCEPT !.matched_items = MatchedAfterCategorize(result)]
    /\ pc' = "categorized"
    /\ UNCHANGED <<loading, mode, scan_results, smartsheet_results, extraction,
                 substituting, normalizing, controlling, parsing>>

Next ==
    \/ CompareResultsPoam
    \/ CompareResultsCsv
    \/ CategorizeFindings

Spec == Init /\ [][Next]_vars

----------------------------------------------------------------------------
(* Inputs of extract_compliance_items: register sheets and client controls *)

Column(id, title) == [id |-> id, title |-> title]

\* the column layouts: the usual titles; titles only the CSV-mode variant
\* resolves; a second identifier column and a padded title
ColumnLayouts ==
    {<<Column(1, <<"C", "o", "m", "p", "l", "i", "a", "n", "c", "e", " ", "I", "D">>),
       Column(2, <<"D", "e", "v", "i", "a", "t", "i", "o", "n", " ", "R", "a", "t", "i", "o", "n", "a", "l", "e">>),
       Column(3, <<"D", "e", "v", "i", "a", "t", "i", "o", "n", " ", "R", "a", "t", "i", "o", "n", "a", "l", "e", " ", "S", "t", "a", "t", "u", "s">>),
       Column(4, <<"S", "h", "o", "u", "l", "d", " ", "F", "i", "x", "?">>)>>,
     <<Column(1, <<"C", "o", "m", "p", "l", "i", "a", "n", "c", "e", "I", "D">>),
       Column(2, <<"D", "e", "v", "i", "a", "t", "i", "o", "n", " ", "R", "a", "t", "i", "o", "n", "a", "l", "e">>),
       Column(3, <<"S", "t", "a", "t", "u", "s", " ", "o", "f", " ", "D", "e", "v", "i", "a", "t", "i", "o", "n", " ", "R", "a", "t", "i", "o", "n", "a", "l", "e">>),
       Column(4, <<"S", "h", "o", "u", "l", "d", " ", "F", "i", "x">>)>>,
     <<Column(5, <<"O", "l", "d", " ", "C", "o", "m", "p", "l", "i", "a", "n", "c", "e", " ", "I", "D">>),
       Column(1, <<"C", "o", "m", "p", "l", "i", "a", "n", "c", "e", " ", "I", "D">>),
       Column(2, <<" ", "D", "e", "v", "i", "a", "t", "i", "o", "n", " ", "R", "a", "t", "i", "o", "n", "a", "l", "e", " ">>),
       Column(3, <<"D", "e", "v", "i", "a", "t", "i", "o", "n", " ", "S", "t", "a", "t", "u", "s">>)>>}

\* a row without a cell for a column holds Absent there
Absent == <<"absent_">>

Cell(column_id, value) == [column_id |-> column_id, value |-> value]

\* the row with the cells of columns 1 to 4: identifier, rationale, status,
\* should fix
SheetRow(values) ==
    [cells |-> SelectIdx([k \in 1..4 |-> Cell(k, values[k])],
                         {k \in 1..4 : values[k] # Absent}, 1)]

txtRationaleClientCloud == <<"[", "C", "l", "i", "e", "n", "t", "]", " ", "v", "i", "a", " ", "[", "c", "l", "o", "u", "d", "_", "p", "r", "o", "v", "i", "d", "e", "r", "]", ".">>

txtRationaleClient == <<"[", "C", "L", "I", "E", "N", "T", "]">>

txtRationaleCloudSpace == <<"[", "c", "l", "o", "u", "d", " ", "p", "r", "o", "v", "i", "d", "e", "r", "]", " ", "[", "C", "l", "o", "u", "d", " ", "P", "r", "o", "v", "i", "d", "e", "r", "]">>

txtRationaleA == <<"[", "a", "]", " ", "[", "A", "]", "[", "b">>

RowPool ==
    {SheetRow(<<idX1, txtRationaleClientCloud, txtApproved, <<"Y", "e", "s">>>>),
     SheetRow(<<<<>>, txtRationaleClient, PyNone, PyTrue>>),
     SheetRow(<<PyNone, txtBlank, txtDraft, <<"m", "a", "y", "b", "e">>>>),
     SheetRow(<<idRhel010030, txtRationaleCloudSpace, Absent, <<"0">>>>),
     SheetRow(<<idY2, txtRationaleA, txtPendingReview, <<" ", "N", " ">>>>),
     SheetRow(<<idZ3, Absent, Absent, Absent>>),
     SheetRow(<<idN4, PyInt(<<"5">>), txtApproved, Absent>>)}

ClientControls(controls) == [client |-> <<"A", "c", "m", "e">>, controls |-> controls]

\* the controls of a client: the usual ones; values with a backslash (a path,
\* an account, a share); a value that is itself a token; a placeholder given
\* twice; the cloud provider under another spelling; none
ControlPool ==
    {ClientControls(<<ControlValue(<<"C", "l", "o", "u", "d", "_", "P", "r", "o", "v", "i", "d", "e", "r">>, <<"A", "W", "S">>),
                      ControlValue(<<"C", "L", "I", "E", "N", "T">>, <<"A", "c", "m", "e">>)>>),
     ClientControls(<<ControlValue(<<"c", "l", "i", "e", "n", "t">>, <<"C", ":", "\\", "n", "e", "w">>)>>),
     ClientControls(<<ControlValue(<<"a">>, <<"C", "O", "R", "P", "\\", "s", "v", "c">>)>>),
     ClientControls(<<ControlValue(<<"a">>, <<"\\", "\\", "s", "r", "v">>)>>),
     ClientControls(<<ControlValue(<<"A">>, <<"[", "c", "l", "i", "e", "n", "t", "]">>),
                      ControlValue(<<"c", "l", "i", "e", "n", "t">>, <<"x">>)>>),
     ClientControls(<<ControlValue(<<"a">>, <<"1">>),
                      ControlValue(<<"a">>, <<"2">>)>>),
     ClientControls(<<ControlValue(<<"c", "l", "o", "u", "d", "p", "r", "o", "v", "i", "d", "e", "r">>, <<"A", "W", "S">>)>>),
     ClientControls(<<>>)}

----------------------------------------------------------------------------
(* The run of extract_compliance_items in one of its two variants *)

MatchingIdle ==
    /\ scan_results = <<>>
    /\ smartsheet_results = <<>>
    /\ result = ComparisonResult(0, 0)
    /\ findings = NoFindings

InitExtract ==
    /\ LoadingIdle
    /\ pc = "start"
    /\ mode = "none"
    /\ MatchingIdle
    /\ SubstitutingIdle
    /\ NormalizingIdle
    /\ ControllingIdle
    /\ ParsingIdle
    /\ compliance_sheet_data \in
          {[columns |-> c, rows |-> r] :
              c \in ColumnLayouts, r \in SeqsUpTo(RowPool, MaxRows)}
    /\ client_controls \in ControlPool
    /\ compliance_items = <<>>
    /\ raised = FALSE

ExtractComplianceItemsPoam ==
    /\ pc = "start"
    /\ \E coerces \in BOOLEAN :
          LET r == extract_compliance_items_poam(compliance_sheet_data,
                                                 client_controls, coerces)
          IN  compliance_items' = r.items /\ raised' = r.raised
    /\ mode' = "poam"
    /\ pc' = "extracted"
    /\ UNCHANGED <<loading, compliance_sheet_data, client_controls, matching,
                   substituting, normalizing, controlling, parsing>>

ExtractComplianceItemsCsv ==
    /\ pc = "start"
    /\ LET r == extract_compliance_items_csv(compliance_sheet_data, client_controls)
       IN  compliance_items' = r.items /\ raised' = r.raised
    /\ mode' = "csv"
    /\ pc' = "extracted"
    /\ UNCHANGED <<loading, compliance_sheet_data, client_controls, matching,
                   substituting, normalizing, controlling, parsing>>

NextExtract ==
    \/ ExtractComplianceItemsPoam
    \/ ExtractComplianceItemsCsv

SpecExtract == InitExtract /\ [][NextExtract]_vars

----------------------------------------------------------------------------
(* extract_client_controls (the same code in both variants) *)

\* text.replace(old, new) for one-character old and new
ReplaceChar(text, old, new) ==
    [i \in DOMAIN text |-> IF text[i] = old THEN new ELSE text[i]]

\* text.replace(' ', '').replace('_', '')
RemoveSpacesAndUnderscores(text) ==
    SelectIdx(text, {i \in DOMAIN text : text[i] \notin {" ", "_"}}, 1)

nameCloudUnderscore == <<"c", "l", "o", "u", "d", "_", "p", "r", "o", "v", "i", "d", "e", "r">>

nameCloudSpace == <<"c", "l", "o", "u", "d", " ", "p", "r", "o", "v", "i", "d", "e", "r">>

\* faulty variant: the form without separators is left out
Variants_NoJoinedForm(orig_title) ==
    LET lower == Lower(orig_title)
    IN  {lower}
        \cup (IF "_" \in Range(orig_title)
              THEN {ReplaceChar(lower, "_", " ")} ELSE {})
        \cup (IF " " \in Range(orig_title)
              THEN {ReplaceChar(lower, " ", "_")} ELSE {})

\* faulty variant: the underscore form is only made for the cloud provider
Variants_NoUnderscoreForm(orig_title) ==
    LET lower == Lower(orig_title)
        variants ==
            {lower}
            \cup (IF "_" \in Range(orig_title)
                  THEN {ReplaceChar(lower, "_", " ")} ELSE {})
            \cup {RemoveSpacesAndUnderscores(lower)}
    IN  IF nameCloudSpace \in variants
        THEN variants \cup {nameCloudUnderscore} ELSE variants

\* the set variants built from the column title of a cell
Variants(orig_title) ==
    LET lower == Lower(orig_title)
        variants ==
            {lower}
            \cup (IF "_" \in Range(orig_title)
                  THEN {ReplaceChar(lower, "_", " ")} ELSE {})
            \cup (IF " " \in Range(orig_title)
                  THEN {ReplaceChar(lower, " ", "_")} ELSE {})
            \cup {RemoveSpacesAndUnderscores(lower)}
        forced == IF nameCloudUnderscore \in variants
                  THEN variants \cup {nameCloudSpace} ELSE variants
    IN  IF nameCloudSpace \in forced
        THEN forced \cup {nameCloudUnderscore} ELSE forced

titleCLIENT == <<"C", "L", "I", "E", "N", "T">>

\* faulty variant: the title of the client column is compared in any case
ClientColId_AnyCase(columns) ==
    LET hits == {k \in DOMAIN columns : Lower(columns[k].title) = Lower(titleCLIENT)}
    IN  IF hits = {} THEN 0
        ELSE columns[CHOOSE k \in hits : \A j \in hits : j <= k].id

\* client_col_id after the loop over the columns: the id of the last column
\* titled CLIENT; 0 stands for None, which "not client_col_id" treats alike
ClientColId(columns) ==
    LET hits == {k \in DOMAIN columns : columns[k].title = titleCLIENT}
    IN  IF hits = {} THEN 0
        ELSE columns[CHOOSE k \in hits : \A j \in hits : j <= k].id

\* column_map[title]: the id of the last column with that title
ColumnMapId(columns, title) ==
    LET hits == {k \in DOMAIN columns : columns[k].title = title}
    IN  columns[CHOOSE k \in hits : \A j \in hits : j <= k].id

\* col_title: the first title of column_map, in insertion order, whose id is
\* col_id, else None
ColTitle(columns, col_id) ==
    LET firsts == {k \in DOMAIN columns :
                      /\ \A j \in 1..(k - 1) : columns[j].title # columns[k].title
                      /\ ColumnMapId(columns, columns[k].title) = col_id}
    IN  IF firsts = {} THEN PyNone
        ELSE columns[CHOOSE k \in firsts : \A j \in firsts : k <= j].title

\* client_value: the value of the row's first cell of the CLIENT column
RowClientValue(row, client_col_id) ==
    LET hits == {k \in DOMAIN row.cells : row.cells[k].column_id = client_col_id}
    IN  IF hits = {} THEN PyNone
        ELSE row.cells[CHOOSE k \in hits : \A j \in hits : k <= j].value

\* faulty variant: the client is compared without regard to case and padding
IsClientRow_Normalized(row, client_col_id, client) ==
    Lower(Strip(PyStr(RowClientValue(row, client_col_id)))) = Lower(Strip(client))

\* not (client_value != selected_client)
IsClientRow(row, client_col_id, client) ==
    RowClientValue(row, client_col_id) = client

\* the cells of a row that give controls, each as <<col_title, value>>
RowControlCells(row, columns, client_col_id) ==
    LET title(k) == ColTitle(columns, row.cells[k].column_id)
        keep == {k \in DOMAIN row.cells :
                    /\ row.cells[k].column_id # client_col_id
                    /\ Truthy(title(k))
                    /\ row.cells[k].value # PyNone}
        pairs == [k \in DOMAIN row.cells |->
                     <<title(k), PyOr(row.cells[k].display_value,
                                      PyStr(row.cells[k].value))>>]
    IN  SelectIdx(pairs, keep, 1)

\* those cells over the rows of the client, in row and cell order
RECURSIVE ControlCells(_, _, _, _)
ControlCells(sheet_data, client, client_col_id, k) ==
    IF k > Len(sheet_data.rows) THEN <<>>
    ELSE (IF IsClientRow(sheet_data.rows[k], client_col_id, client)
          THEN RowControlCells(sheet_data.rows[k], sheet_data.columns, client_col_id)
          ELSE <<>>)
         \o ControlCells(sheet_data, client, client_col_id, k + 1)

\* the lists client_controls.controls can become: for each cell, in order, one
\* ControlValue per variant, the variants of a cell in any order (a set is
\* iterated)
RECURSIVE ControlLists(_, _)
ControlLists(cells, k) ==
    IF k > Len(cells) THEN {<<>>}
    ELSE {[i \in DOMAIN order |-> ControlValue(order[i], cells[k][2])] \o rest :
             order \in Orderings(Variants(cells[k][1])),
             rest \in ControlLists(cells, k + 1)}

\* the ClientControls extract_client_controls can return
extract_client_controls(sheet_data, client) ==
    LET client_col_id == ClientColId(sheet_data.columns)
    IN  IF client_col_id = 0
        THEN {[client |-> client, controls |-> <<>>]}
        ELSE {[client |-> client, controls |-> controls] :
                 controls \in ControlLists(
                     ControlCells(sheet_data, client, client_col_id, 1), 1)}

----------------------------------------------------------------------------
(* parse_poam and the POAM row processors *)

\* row[i] of a Python list
RowAt(row, i) == row[i + 1]

\* isinstance(v, str)
IsStr(v) == v \notin {PyNone, PyTrue, PyFalse} /\ ~IsInt(v)

\* the characters \b takes for parts of a word
WordChars == ASCIILetters \cup Digits \cup {"_"}

\* _rhel_pattern matches at position i: \b(RHEL-\d{2}-\d{6})\b
RhelMatchAt(text, i) ==
    /\ i + 13 <= Len(text)
    /\ SubSeq(text, i, i + 4) = <<"R", "H", "E", "L", "-">>
    /\ \A j \in {5, 6} \cup (8..13) : text[i + j] \in Digits
    /\ text[i + 7] = "-"
    /\ i = 1 \/ text[i - 1] \notin WordChars
    /\ i + 13 = Len(text) \/ text[i + 14] \notin WordChars

\* _rhel_pattern.search(text): group 1 of the first match, or None
RhelSearch(text) ==
    LET hits == {i \in DOMAIN text : RhelMatchAt(text, i)}
    IN  IF hits = {} THEN PyNone
        ELSE LET i == CHOOSE i \in hits : \A j \in hits : i <= j
             IN  SubSeq(text, i, i + 13)

\* the end of the longest run of digits that starts at position i; i - 1
\* when there is none
RECURSIVE DigitsEnd(_, _)
DigitsEnd(text, i) ==
    IF i <= Len(text) /\ text[i] \in Digits THEN DigitsEnd(text, i + 1) ELSE i - 1

\* the end of the longest (\.\d+)* that starts after position e
RECURSIVE DottedEnd(_, _)
DottedEnd(text, e) ==
    IF e + 2 <= Len(text) /\ text[e + 1] = "." /\ text[e + 2] \in Digits
    THEN DottedEnd(text, DigitsEnd(text, e + 2))
    ELSE e

\* _psql_id_pattern.search(text): group 1 of ^(\d+(\.\d+)+), or None
PsqlSearch(text) ==
    LET first == DigitsEnd(text, 1)
        last == DottedEnd(text, first)
    IN  IF first >= 1 /\ last > first THEN SubSeq(text, 1, last) ELSE PyNone

_managed_db_domains ==
    <<<<".", "s", "q", "l", ".", "g", "o", "o", "g">>, <<"r", "d", "s", ".", "a", "m", "a", "z", "o", "n", "a", "w", "s", ".", "c", "o", "m">>, <<".", "d", "a", "t", "a", "b", "a", "s", "e", ".", "a", "z", "u", "r", "e", ".", "c", "o", "m">>>>

\* RhelPoamProcessor.can_process(row)
RhelCanProcess(row) ==
    /\ Len(row) > 2
    /\ IsStr(RowAt(row, 2))
    /\ RhelSearch(RowAt(row, 2)) # PyNone

\* PostgresPoamProcessor.can_process(row)
PostgresCanProcess(row) ==
    /\ Len(row) > 6
    /\ IsStr(RowAt(row, 2))
    /\ IsStr(RowAt(row, 6))
    /\ PsqlSearch(RowAt(row, 2)) # PyNone
    /\ ContainsAny(RowAt(row, 6), _managed_db_domains)

\* the ComplianceScanResult both processors build around the identifier
PoamScanResult(row, compliance_id) ==
    ComplianceScanResult(
        [compliance_id |-> compliance_id,
         poam_id |-> PyStr(IF Len(row) > 0 THEN RowAt(row, 0) ELSE <<"U", "n", "k", "n", "o", "w", "n">>),
         status |-> <<"F", "a", "i", "l">>,
         hostname |-> PyStr(IF Len(row) > 6 THEN RowAt(row, 6) ELSE <<"U", "n", "k", "n", "o", "w", "n">>),
         srg_solution |-> IF Len(row) > 9 THEN RowAt(row, 9) ELSE PyNone,
         details |-> <<"F", "r", "o", "m", " ", "P", "O", "A", "M", ":", " ">> \o RowAt(row, 2)])

\* RhelPoamProcessor.process(row), for a row it can process
RhelProcess(row) ==
    IF RhelSearch(RowAt(row, 2)) = PyNone THEN PyNone
    ELSE PoamScanResult(row, RhelSearch(RowAt(row, 2)))

\* PostgresPoamProcessor.process(row), for a row it can process
PostgresProcess(row) ==
    IF PsqlSearch(RowAt(row, 2)) = PyNone THEN PyNone
    ELSE PoamScanResult(row, PsqlSearch(RowAt(row, 2)))

\* the registry of the processors, by benchmark
ALL_POAM_PROCESSORS ==
    [benchmark \in {"RHEL 8.X", "PostgreSQL15_CIS1.1.0"} |->
        IF benchmark = "RHEL 8.X" THEN "RhelPoamProcessor"
        ELSE "PostgresPoamProcessor"]

\* processor.benchmark_name: PostgresPoamProcessor keeps that of the base
\* class
benchmark_name(processor) ==
    IF processor = "RhelPoamProcessor" THEN "RHEL" ELSE "Unknown"

can_process(processor, row) ==
    IF processor = "RhelPoamProcessor"
    THEN RhelCanProcess(row) ELSE PostgresCanProcess(row)

process(processor, row) ==
    IF processor = "RhelPoamProcessor"
    THEN RhelProcess(row) ELSE PostgresProcess(row)

\* active_processors: those of the benchmarks that are registered, in the
\* order of benchmarks_to_run
ActiveProcessors(benchmarks) ==
    LET known == {k \in DOMAIN benchmarks : benchmarks[k] \in DOMAIN ALL_POAM_PROCESSORS}
    IN  SelectIdx([k \in DOMAIN benchmarks |->
                      IF k \in known THEN ALL_POAM_PROCESSORS[benchmarks[k]]
                      ELSE "none"],
                  known, 1)

COLUMNS_TO_CHECK == <<17, 21, 22>>

\* not row or not any(row)
IsEmptyRow(row) == \A k \in DOMAIN row : ~Truthy(row[k])

\* is_pending after the loop over COLUMNS_TO_CHECK
IsPending(row) ==
    \E k \in DOMAIN COLUMNS_TO_CHECK :
        /\ Len(row) > COLUMNS_TO_CHECK[k]
        /\ Truthy(RowAt(row, COLUMNS_TO_CHECK[k]))
        /\ Contains(Lower(PyStr(RowAt(row, COLUMNS_TO_CHECK[k]))), <<"p", "e", "n", "d", "i", "n", "g">>)

\* the dispatch of one row: the (benchmark_name, result) pairs to append; the
\* first processor that accepts the row gets it and the loop breaks
Dispatch(row, active_processors) ==
    LET hits == {k \in DOMAIN active_processors :
                    can_process(active_processors[k], row)}
        first == CHOOSE k \in hits : \A j \in hits : k <= j
        result_ == process(active_processors[first], row)
    IN  IF hits = {} \/ result_ = PyNone THEN <<>>
        ELSE <<<<benchmark_name(active_processors[first]), result_>>>>

\* grouped_results[name].append(result) on a defaultdict(list), held as the
\* list of its (key, list) pairs in insertion order
AppendGrouped(grouped, pairs) ==
    IF pairs = <<>> THEN grouped
    ELSE LET name == pairs[1][1]
             at == {k \in DOMAIN grouped : grouped[k][1] = name}
         IN  IF at = {} THEN Append(grouped, <<name, <<pairs[1][2]>>>>)
             ELSE [k \in DOMAIN grouped |->
                      IF k \in at THEN <<name, Append(grouped[k][2], pairs[1][2])>>
                      ELSE grouped[k]]

\* the loop over the rows of the sheet
RECURSIVE ParseRows(_, _, _, _)
ParseRows(rows, active_processors, k, acc) ==
    IF k > Len(rows) THEN acc
    ELSE LET row == rows[k]
             next ==
                 IF IsEmptyRow(row) THEN acc
                 ELSE IF IsPending(row)
                 THEN [acc EXCEPT !.skipped_findings =
                          Append(@, IF Len(row) > 2 THEN RowAt(row, 2)
                                    ELSE <<"U", "n", "k", "n", "o", "w", "n", " ", "F", "i", "n", "d", "i", "n", "g">>)]
                 ELSE [acc EXCEPT !.grouped_results =
                          AppendGrouped(@, Dispatch(row, active_processors))]
         IN  ParseRows(rows, active_processors, k + 1, next)

\* parse_poam(file_path, benchmarks_to_run) on a workbook that has the sheet
\* Configuration Findings with these rows; skipped_findings is what the
\* summary line counts
parse_poam(rows, benchmarks) ==
    IF ActiveProcessors(benchmarks) = <<>>
    THEN [grouped_results |-> <<>>, skipped_findings |-> <<>>]
    ELSE ParseRows(rows, ActiveProcessors(benchmarks), 1,
                   [grouped_results |-> <<>>, skipped_findings |-> <<>>])

----------------------------------------------------------------------------
(* The placeholder loop on one rationale text, run once and run again on   *)
(* its own result                                                          *)

\* faulty variant: the placeholder loop is run a second time on its result
SubstitutePoam_TwoPasses(cell_value, placeholder_mapping) ==
    LET once == ReplacePlaceholdersPoam(placeholder_mapping, PyOr(cell_value, <<>>), 1)
    IN  IF once \in {ReError, TypeError} THEN once
        ELSE ReplacePlaceholdersPoam(placeholder_mapping, once, 1)

\* deviation_rationale as the POAM-mode variant computes it from the cell
SubstitutePoam(cell_value, placeholder_mapping) ==
    ReplacePlaceholdersPoam(placeholder_mapping, PyOr(cell_value, <<>>), 1)

\* deviation_rationale as the CSV-mode variant computes it from the cell of
\* the row with that compliance_id
SubstituteCsv(compliance_id, cell_value, placeholder_mapping) ==
    LET original_text == PyOr(cell_value, <<>>)
        sub == ReplacePlaceholdersCsv(placeholder_mapping, original_text, {}, 1)
    IN  IF Strip(original_text) = <<>> THEN original_text
        ELSE IF sub.text = ReError THEN ReError
        ELSE CloudProviderSpecialCase(compliance_id, sub.text, placeholder_mapping)

\* the texts of brackets and a letter, up to MaxText characters: tokens, tokens
\* side by side, one inside another, cut short
BracketTexts == SeqsUpTo({"[", "]", "a"}, MaxText)

txtNested == <<"[", "[", "a", "]", "b", "]">>

RationalePool ==
    {[compliance_id |-> idX1, original_text |-> t] :
        t \in BracketTexts \cup {txtRationaleClientCloud, txtRationaleClient,
                                 txtRationaleA, txtNested, txtBlank}}
    \cup {[compliance_id |-> idRhel010030, original_text |-> t] :
        t \in {txtRationaleCloudSpace, txtRationaleClientCloud}}

\* the controls of ControlPool, and: a value that is a token of a placeholder
\* already done with; an empty value inside a token; a value that is the
\* match; two names that differ in case only
SubstitutionControlPool ==
    ControlPool \cup
    {ClientControls(<<ControlValue(<<"c", "l", "i", "e", "n", "t">>, <<"x">>),
                      ControlValue(<<"A">>, <<"[", "c", "l", "i", "e", "n", "t", "]">>)>>),
     ClientControls(<<ControlValue(<<"b">>, <<"y">>),
                      ControlValue(<<"a">>, <<>>)>>),
     ClientControls(<<ControlValue(<<"a">>, <<"\\", "g", "<", "0", ">">>)>>),
     ClientControls(<<ControlValue(<<"a">>, <<"1">>),
                      ControlValue(<<"A">>, <<"2">>)>>)}

InitSubstitute ==
    /\ LoadingIdle
    /\ pc = "start"
    /\ mode = "none"
    /\ rationale \in
          {r @@ [updated_text |-> PyNone, resubstituted_text |-> PyNone] :
              r \in RationalePool}
    /\ client_controls \in SubstitutionControlPool
    /\ compliance_sheet_data = [columns |-> <<>>, rows |-> <<>>]
    /\ compliance_items = <<>>
    /\ raised = FALSE
    /\ MatchingIdle
    /\ NormalizingIdle
    /\ ControllingIdle
    /\ ParsingIdle

SubstituteRationalePoam ==
    /\ pc = "start"
    /\ rationale' = [rationale EXCEPT !.updated_text =
                        SubstitutePoam(rationale.original_text,
                                       to_dict(client_controls.controls))]
    /\ mode' = "poam"
    /\ pc' = "substituted"
    /\ UNCHANGED <<loading, matching, extraction, normalizing, controlling, parsing>>

SubstituteRationaleCsv ==
    /\ pc = "start"
    /\ rationale' = [rationale EXCEPT !.updated_text =
                        SubstituteCsv(rationale.compliance_id,
                                      rationale.original_text,
                                      to_dict(client_controls.controls))]
    /\ mode' = "csv"
    /\ pc' = "substituted"
    /\ UNCHANGED <<loading, matching, extraction, normalizing, controlling, parsing>>

\* the same loop over the text it produced, unless re.sub raised
SubstituteAgain ==
    /\ pc = "substituted"
    /\ rationale.updated_text # ReError
    /\ rationale' = [rationale EXCEPT !.resubstituted_text =
                        IF mode = "poam"
                        THEN SubstitutePoam(rationale.updated_text,
                                            to_dict(client_controls.controls))
                        ELSE SubstituteCsv(rationale.compliance_id,
                                           rationale.updated_text,
                                           to_dict(client_controls.controls))]
    /\ pc' = "resubstituted"
    /\ UNCHANGED <<loading, mode, matching, extraction, normalizing, controlling, parsing>>

NextSubstitute ==
    \/ SubstituteRationalePoam
    \/ SubstituteRationaleCsv
    \/ SubstituteAgain

SpecSubstitute == InitSubstitute /\ [][NextSubstitute]_vars

----------------------------------------------------------------------------
(* The run of extract_client_controls, then of to_dict on what it returned *)

ControlColumnLayouts ==
    {<<Column(1, titleCLIENT),
       Column(2, <<"C", "l", "o", "u", "d", "_", "P", "r", "o", "v", "i", "d", "e", "r">>),
       Column(3, <<"C", "l", "o", "u", "d", " ", "P", "r", "o", "v", "i", "d", "e", "r">>),
       Column(4, <<"R", "e", "g", "i", "o", "n">>)>>,
     <<Column(1, <<"C", "l", "i", "e", "n", "t">>),
       Column(2, <<"C", "l", "o", "u", "d", "_", "P", "r", "o", "v", "i", "d", "e", "r">>),
       Column(4, <<"R", "e", "g", "i", "o", "n">>)>>,
     <<Column(1, titleCLIENT),
       Column(2, <<"A", "_", "B", " ", "C">>),
       Column(4, <<"R", "e", "g", "i", "o", "n">>)>>}

ControlCell(column_id, value, display_value) ==
    [column_id |-> column_id, value |-> value, display_value |-> display_value]

clientAcme == <<"A", "c", "m", "e">>

clientAcmeLower == <<"a", "c", "m", "e">>

clientAcmePadded == <<" ", "A", "c", "m", "e">>

\* the rows of the control sheet: the client, in another case, padded; cells
\* with a display value, without a value; every value is written once
ControlRowPool ==
    {[cells |-> <<ControlCell(1, clientAcme, PyNone),
                  ControlCell(2, <<"A", "W", "S">>, PyNone),
                  ControlCell(4, <<"u", "s">>, PyNone)>>],
     [cells |-> <<ControlCell(1, clientAcme, PyNone),
                  ControlCell(2, <<"G", "C", "P">>, <<"G", "o", "o", "g", "l", "e">>)>>],
     [cells |-> <<ControlCell(1, clientAcmeLower, PyNone),
                  ControlCell(2, <<"A", "z", "u", "r", "e">>, PyNone)>>],
     [cells |-> <<ControlCell(1, clientAcmePadded, PyNone),
                  ControlCell(4, <<"e", "u">>, PyNone)>>],
     [cells |-> <<ControlCell(1, clientAcme, PyNone),
                  ControlCell(2, PyNone, PyNone),
                  ControlCell(3, <<"O", "C", "I">>, PyNone)>>],
     [cells |-> <<ControlCell(1, clientAcme, PyNone),
                  ControlCell(3, <<"I", "B", "M">>, PyNone),
                  ControlCell(2, <<"A", "l", "i">>, PyNone)>>]}

InitControls ==
    /\ LoadingIdle
    /\ pc = "start"
    /\ mode = "none"
    /\ control_sheet_data \in
          {[columns |-> c, rows |-> r] :
              c \in ControlColumnLayouts,
              r \in SeqsUpTo(ControlRowPool, MaxControlRows)}
    /\ selected_client \in {clientAcme, clientAcmeLower}
    /\ placeholder_dict = <<>>
    /\ MatchingIdle
    /\ ExtractionIdle
    /\ SubstitutingIdle
    /\ NormalizingIdle
    /\ ParsingIdle

ExtractClientControls ==
    /\ pc \in {"start", "parsed"}
    /\ client_controls' \in extract_client_controls(control_sheet_data, selected_client)
    /\ pc' = "controls"
    /\ UNCHANGED <<loading, mode, control_sheet_data, selected_client, placeholder_dict,
                   compliance_sheet_data, compliance_items, raised,
                   matching, substituting, normalizing, parsing>>

\* placeholder_mapping = client_controls.to_dict(), the first statement of
\* extract_compliance_items
ToDict ==
    /\ pc = "controls"
    /\ placeholder_dict' = to_dict(client_controls.controls)
    /\ pc' = "mapped"
    /\ UNCHANGED <<loading, mode, control_sheet_data, selected_client, extraction,
                   matching, substituting, normalizing, parsing>>

NextControls ==
    \/ ExtractClientControls
    \/ ToDict

SpecControls == InitControls /\ [][NextControls]_vars

----------------------------------------------------------------------------
(* normalize_boolean on one should_fix cell *)

\* the sixteen tokens as written, in capitals, and capitalized with blanks
\* around them
TokenTexts ==
    {<<"t", "r", "u", "e">>,
     <<"T", "R", "U", "E">>,
     <<" ", " ", "T", "r", "u", "e", " ">>,
     <<"y", "e", "s">>,
     <<"Y", "E", "S">>,
     <<" ", " ", "Y", "e", "s", " ">>,
     <<"y">>,
     <<"Y">>,
     <<" ", " ", "Y", " ">>,
     <<"1">>,
     <<" ", " ", "1", " ">>,
     <<"c", "h", "e", "c", "k", "e", "d">>,
     <<"C", "H", "E", "C", "K", "E", "D">>,
     <<" ", " ", "C", "h", "e", "c", "k", "e", "d", " ">>,
     <<"x">>,
     <<"X">>,
     <<" ", " ", "X", " ">>,
     <<"o", "n">>,
     <<"O", "N">>,
     <<" ", " ", "O", "n", " ">>,
     <<"t">>,
     <<"T">>,
     <<" ", " ", "T", " ">>,
     <<"f", "a", "l", "s", "e">>,
     <<"F", "A", "L", "S", "E">>,
     <<" ", " ", "F", "a", "l", "s", "e", " ">>,
     <<"n", "o">>,
     <<"N", "O">>,
     <<" ", " ", "N", "o", " ">>,
     <<"n">>,
     <<"N">>,
     <<" ", " ", "N", " ">>,
     <<"0">>,
     <<" ", " ", "0", " ">>,
     <<"u", "n", "c", "h", "e", "c", "k", "e", "d">>,
     <<"U", "N", "C", "H", "E", "C", "K", "E", "D">>,
     <<" ", " ", "U", "n", "c", "h", "e", "c", "k", "e", "d", " ">>,
     <<>>,
     <<" ", " ", " ">>,
     <<"o", "f", "f">>,
     <<"O", "F", "F">>,
     <<" ", " ", "O", "f", "f", " ">>,
     <<"f">>,
     <<"F">>,
     <<" ", " ", "F", " ">>}

\* texts that are no token
OtherTexts ==
    {<<"m", "a", "y", "b", "e">>,
     <<"2">>,
     <<"t", "r", " ", "u", "e">>,
     <<"y", "e", "s", "!">>,
     <<"n", "o", "p", "e">>,
     <<"t", "r", "u", "e", "e">>,
     <<"-">>,
     <<"f", "a", "l", "s">>,
     <<"1", "0">>,
     <<"n", "a">>,
     <<"n", "/", "a">>,
     <<"o", "f">>,
     <<"y", "e", " ", "s">>,
     <<"T", "B", "D">>}

InitNormalize ==
    /\ LoadingIdle
    /\ pc = "start"
    /\ mode = "none"
    /\ raw_value \in TokenTexts \cup OtherTexts \cup {PyNone, PyTrue, PyFalse}
    /\ normalized_value = <<>>
    /\ MatchingIdle
    /\ ExtractionIdle
    /\ SubstitutingIdle
    /\ ControllingIdle
    /\ ParsingIdle

\* item_data['should_fix'] = normalize_boolean(cell_value)
NormalizeBoolean ==
    /\ pc = "start"
    /\ normalized_value' = <<normalize_boolean(raw_value)>>
    /\ pc' = "normalized"
    /\ UNCHANGED <<loading, mode, raw_value, extraction, matching, substituting,
                   controlling, parsing>>

NextNormalize == NormalizeBoolean

SpecNormalize == InitNormalize /\ [][NextNormalize]_vars

----------------------------------------------------------------------------
(* The run of parse_poam, on its own and from the loop of run_app *)

\* a row of the sheet Configuration Findings: POAM ID, weakness name, asset
\* identifier and remediation plan in columns A, C, G and J, and the columns
\* R, V and W that are checked for "pending"
PoamRow(poam_id, weakness_name, asset, plan, r, v, w) ==
    [i \in 1..23 |->
        IF i = 1 THEN poam_id
        ELSE IF i = 3 THEN weakness_name
        ELSE IF i = 7 THEN asset
        ELSE IF i = 10 THEN plan
        ELSE IF i = 18 THEN r
        ELSE IF i = 22 THEN v
        ELSE IF i = 23 THEN w
        ELSE PyNone]

\* the rows: one of each benchmark; one both recognizers accept; pending
\* ones, recognized and not; one no recognizer accepts, cut after column G;
\* an empty one
PoamRowPool ==
    {PoamRow(<<"P", "1">>, <<"R", "H", "E", "L", "-", "0", "8", "-", "0", "1", "0", "0", "3", "0", " ", "a", "u", "d", "i", "t">>, <<"h", "o", "s", "t", "1">>, <<"f", "i", "x">>,
             PyNone, PyNone, PyNone),
     PoamRow(<<"P", "2">>, <<"1", ".", "1", " ", "E", "n", "s", "u", "r", "e", " ", "r", "e", "p", "o">>, <<"d", "b", ".", "r", "d", "s", ".", "a", "m", "a", "z", "o", "n", "a", "w", "s", ".", "c", "o", "m">>, PyNone,
             PyNone, <<"O", "p", "e", "n">>, PyNone),
     PoamRow(<<"P", "3">>, <<"1", ".", "2", " ", "(", "R", "H", "E", "L", "-", "0", "8", "-", "0", "1", "0", "0", "4", "0", ")">>, <<"p", "g", ".", "s", "q", "l", ".", "g", "o", "o", "g">>, <<"p", "l", "a", "n">>,
             PyNone, PyNone, PyNone),
     PoamRow(<<"P", "4">>, <<"R", "H", "E", "L", "-", "0", "8", "-", "0", "2", "0", "0", "0", "0">>, <<"h", "o", "s", "t", "2">>, PyNone,
             <<"P", "e", "n", "d", "i", "n", "g", " ", "R", "e", "v", "i", "e", "w">>, PyNone, PyNone),
     PoamRow(<<"P", "5">>, <<"O", "p", "e", "n", " ", "p", "o", "r", "t">>, <<"h", "o", "s", "t", "3">>, PyNone,
             PyNone, PyNone, <<"P", "E", "N", "D", "I", "N", "G">>),
     SubSeq(PoamRow(<<"P", "6">>, <<"X", "R", "H", "E", "L", "-", "0", "8", "-", "0", "1", "0", "0", "3", "0", " ", "1", ".", "1">>, <<"a", ".", "d", "a", "t", "a", "b", "a", "s", "e", ".", "a", "z", "u", "r", "e", ".", "c", "o", "m">>,
                    PyNone, PyNone, PyNone, PyNone), 1, 7),
     [i \in 1..23 |-> PyNone]}

\* the benchmarks asked for: of the registry, in both orders, and one that
\* has no processor
BenchmarkLists ==
    {<<"RHEL 8.X">>, <<"PostgreSQL15_CIS1.1.0">>,
     <<"RHEL 8.X", "PostgreSQL15_CIS1.1.0">>,
     <<"PostgreSQL15_CIS1.1.0", "RHEL 8.X">>,
     <<"Windows 2019", "RHEL 8.X">>,
     <<"Windows 2019">>}

InitParse ==
    /\ LoadingIdle
    /\ pc = "start"
    /\ mode = "none"
    /\ poam_rows \in SeqsUpTo(PoamRowPool, MaxPoamRows)
    /\ benchmarks_to_run \in BenchmarkLists
    /\ grouped_results = <<>>
    /\ skipped_findings = <<>>
    /\ run_index = 0
    /\ run_findings = <<>>
    /\ MatchingIdle
    /\ ExtractionIdle
    /\ SubstitutingIdle
    /\ NormalizingIdle
    /\ ControllingIdle

\* one call of parse_poam with all the benchmarks
ParsePoam ==
    /\ pc = "start"
    /\ LET r == parse_poam(poam_rows, benchmarks_to_run)
       IN  /\ grouped_results' = r.grouped_results
           /\ skipped_findings' = r.skipped_findings
    /\ pc' = "parsed"
    /\ UNCHANGED <<loading, mode, poam_rows, benchmarks_to_run, run_index, run_findings,
                   matching, extraction, substituting, normalizing, controlling>>

\* one pass of the loop of run_app over the selected benchmarks: parse_poam
\* is called with the one benchmark; without findings the pass ends, else
\* the first list of the dict is what the benchmark is reported with
RunAppBenchmark ==
    /\ pc \in {"start", "running"}
    /\ run_index < Len(benchmarks_to_run)
    /\ LET benchmark_name_from_sheet == benchmarks_to_run[run_index + 1]
           r == parse_poam(poam_rows, <<benchmark_name_from_sheet>>)
       IN  /\ grouped_results' = r.grouped_results
           /\ skipped_findings' = r.skipped_findings
           /\ run_findings' =
                 IF r.grouped_results = <<>> THEN run_findings
                 ELSE Append(run_findings,
                             <<benchmark_name_from_sheet, r.grouped_results[1][2]>>)
    /\ run_index' = run_index + 1
    /\ pc' = "running"
    /\ UNCHANGED <<loading, mode, poam_rows, benchmarks_to_run,
                   matching, extraction, substituting, normalizing, controlling>>

NextParse ==
    \/ ParsePoam
    \/ RunAppBenchmark

SpecParse == InitParse /\ [][NextParse]_vars

----------------------------------------------------------------------------
(* A run with both inputs: parse_poam on the POAM, then                    *)
(* extract_client_controls on the control sheet                            *)

InitConfig ==
    /\ LoadingIdle
    /\ pc = "start"
    /\ mode = "none"
    /\ control_sheet_data \in
          {[columns |-> c, rows |-> r] :
              c \in ControlColumnLayouts,
              r \in SeqsUpTo(ControlRowPool, MaxConfigRows)}
    /\ selected_client \in {clientAcme, clientAcmeLower}
    /\ placeholder_dict = <<>>
    /\ poam_rows \in SeqsUpTo(PoamRowPool, MaxConfigRows)
    /\ benchmarks_to_run \in BenchmarkLists
    /\ grouped_results = <<>>
    /\ skipped_findings = <<>>
    /\ run_index = 0
    /\ run_findings = <<>>
    /\ MatchingIdle
    /\ ExtractionIdle
    /\ SubstitutingIdle
    /\ NormalizingIdle

NextConfig ==
    \/ ParsePoam
    \/ ExtractClientControls

SpecConfig == InitConfig /\ [][NextConfig]_vars

----------------------------------------------------------------------------
(* load_scan_results: the table pd.read_csv returns and what is read of it *)

\* a missing cell of the table
PyNaN == <<"nan_">>

\* pd.isna(v)
isna(v) == v = PyNaN

\* a cell that holds text; the other cells are missing or numbers
IsTextCell(v) == v # PyNaN /\ ~IsInt(v)

\* col in df.columns
HasColumn(frame, col) == \E k \in DOMAIN frame.columns : frame.columns[k] = col

ColumnAt(frame, col) == CHOOSE k \in DOMAIN frame.columns : frame.columns[k] = col

\* row[col] of the r-th row
CellAt(frame, r, col) == frame.rows[r][ColumnAt(frame, col)]

\* the dtype of a column: a column with a text cell, and every column of a
\* table without rows, is an object column; a column of numbers is a float
\* column when a cell of it is missing and an int column otherwise
IsObjectColumn(frame, col) ==
    \/ frame.rows = <<>>
    \/ \E r \in DOMAIN frame.rows : IsTextCell(CellAt(frame, r, col))

IsFloatColumn(frame, col) ==
    /\ ~IsObjectColumn(frame, col)
    /\ \E r \in DOMAIN frame.rows : isna(CellAt(frame, r, col))

\* df.iterrows() gives every number of a row as a float when no column of
\* the table is an object column and one of them is a float column
RowsAreFloat(frame) ==
    /\ \A k \in DOMAIN frame.columns : ~IsObjectColumn(frame, frame.columns[k])
    /\ \E k \in DOMAIN frame.columns : IsFloatColumn(frame, frame.columns[k])

\* str(row[col])
StrOfCell(frame, r, col) ==
    LET v == CellAt(frame, r, col)
    IN  IF isna(v) THEN <<"n", "a", "n">>
        ELSE IF IsInt(v)
             THEN IF IsFloatColumn(frame, col) \/ RowsAreFloat(frame)
                  THEN Tail(v) \o <<".", "0">>
                  ELSE Tail(v)
        ELSE v

\* not row[col]: a number that is zero
IsZero(v) == IsInt(v) /\ \A i \in 2..Len(v) : v[i] = "0"

\* df[col].str raises AttributeError on a column that is no object column
StrAccessorRaises(frame, col) == ~IsObjectColumn(frame, col)

\* df[col].str.contains(sub, na=False).any()
StrContainsAny(frame, col, sub) ==
    \E r \in DOMAIN frame.rows :
        /\ IsTextCell(CellAt(frame, r, col))
        /\ Contains(CellAt(frame, r, col), sub)

\* next((col for col in df.columns if any(k in col.lower() for k in keywords)), None)
FirstColumnWith(frame, keywords) ==
    LET hits == {k \in DOMAIN frame.columns :
                    ContainsAny(Lower(frame.columns[k]), keywords)}
    IN  IF hits = {} THEN PyNone
        ELSE frame.columns[CHOOSE k \in hits : \A j \in hits : k <= j]

status_col(frame) == FirstColumnWith(frame, <<<<"s", "t", "a", "t", "u", "s">>, <<"o", "b", "j", "e", "c", "t">>>>)

severity_col(frame) ==
    FirstColumnWith(frame, <<<<"s", "e", "v", "e", "r", "i", "t", "y">>, <<"c", "a", "t">>, <<"c", "a", "t", "e", "g", "o", "r", "y">>>>)

hostname_col(frame) ==
    FirstColumnWith(frame, <<<<"h", "o", "s", "t">>, <<"a", "s", "s", "e", "t">>, <<"h", "o", "s", "t", "n", "a", "m", "e">>>>)

description_col(frame) ==
    FirstColumnWith(frame, <<<<"d", "e", "s", "c">>, <<"f", "i", "n", "d", "i", "n", "g">>, <<"t", "i", "t", "l", "e">>>>)

possible_id_cols ==
    <<<<"C", "o", "m", "p", "l", "i", "a", "n", "c", "e", " ", "I", "D">>, <<"F", "i", "n", "d", "i", "n", "g", " ", "I", "D">>, <<"S", "T", "I", "G", " ", "I", "D">>, <<"V", "u", "l", "n", "e", "r", "a", "b", "i", "l", "i", "t", "y", " ", "I", "D">>,
      <<"I", "D">>, <<"U", "n", "i", "q", "u", "e", " ", "I", "D">>>>

\* the first label of possible_id_cols that is a column, or None
compliance_id_col(frame) ==
    LET hits == {k \in DOMAIN possible_id_cols : HasColumn(frame, possible_id_cols[k])}
    IN  IF hits = {} THEN PyNone
        ELSE possible_id_cols[CHOOSE k \in hits : \A j \in hits : k <= j]

colUniqueID == <<"U", "n", "i", "q", "u", "e", " ", "I", "D">>

colDescription == <<"D", "e", "s", "c", "r", "i", "p", "t", "i", "o", "n">>

colPluginID == <<"P", "l", "u", "g", "i", "n", " ", "I", "D">>

txtUnknown == <<"U", "n", "k", "n", "o", "w", "n">>

\* str(row[col]).strip() if col and not pd.isna(row[col]) else default
StrippedOr(frame, r, col, default) ==
    IF col # PyNone /\ ~isna(CellAt(frame, r, col))
    THEN Strip(StrOfCell(frame, r, col))
    ELSE default

\* a number as it comes out of a row
NumberOfCell(frame, r, col) ==
    LET v == CellAt(frame, r, col)
    IN  IF IsInt(v) /\ (IsFloatColumn(frame, col) \/ RowsAreFloat(frame))
        THEN <<"float_">> \o Tail(v) \o <<".", "0">>
        ELSE v

\* the severity field, Optional[Union[str, int]], of a value: a model that
\* coerces keeps a number as its text, one that does not keeps a whole number
\* as an int
SeverityField(frame, r, col, coerces) ==
    LET v == CellAt(frame, r, col)
    IN  IF IsInt(v)
        THEN IF coerces THEN StrOfCell(frame, r, col) ELSE v
        ELSE v

\* row[col] if col and not pd.isna(row[col]) else None, as the severity
SeverityOr(frame, r, col, coerces) ==
    IF col # PyNone /\ ~isna(CellAt(frame, r, col))
    THEN SeverityField(frame, r, col, coerces)
    ELSE PyNone

\* the loop "for col in df.columns: if col not in used: if not
\* pd.isna(row[col]): additional_fields[col] = row[col]", as the list of the
\* (label, value) pairs in the order of insertion
RECURSIVE AdditionalFrom(_, _, _, _)
AdditionalFrom(frame, r, used, k) ==
    IF k > Len(frame.columns) THEN <<>>
    ELSE LET col == frame.columns[k]
         IN  (IF col \notin used /\ ~isna(frame.rows[r][k])
              THEN <<<<col, NumberOfCell(frame, r, col)>>>>
              ELSE <<>>) \o AdditionalFrom(frame, r, used, k + 1)

AdditionalFields(frame, r, used) == AdditionalFrom(frame, r, used, 1)

\* the rows of the table a loop makes a result of, one list of results per
\* row, joined in the order of the rows
RECURSIVE JoinRows(_, _)
JoinRows(perRow, r) ==
    IF r > Len(perRow) THEN <<>> ELSE perRow[r] \o JoinRows(perRow, r + 1)

\* lines 418-447: the identifiers are the cells of the identifier column
ColumnResultOfRow(frame, r, id_col, coerces) ==
    LET used == {id_col, status_col(frame), severity_col(frame),
                 hostname_col(frame), description_col(frame)}
    IN  IF isna(CellAt(frame, r, id_col)) \/ IsZero(CellAt(frame, r, id_col))
        THEN <<>>
        ELSE <<ComplianceScanResult(
                 [compliance_id |-> Strip(StrOfCell(frame, r, id_col)),
                  status |-> StrippedOr(frame, r, status_col(frame), txtUnknown),
                  severity |-> SeverityOr(frame, r, severity_col(frame), coerces),
                  hostname |-> StrippedOr(frame, r, hostname_col(frame), PyNone),
                  description |-> StrippedOr(frame, r, description_col(frame), PyNone),
                  additional_fields |-> AdditionalFields(frame, r, used)])>>

ColumnResults(frame, coerces) ==
    JoinRows([r \in DOMAIN frame.rows |->
                 ColumnResultOfRow(frame, r, compliance_id_col(frame), coerces)], 1)

\* rhel_pattern = r'(RHEL-\d{2}-\d{6})' matches at position i
RhelIdAt(text, i) ==
    /\ i + 13 <= Len(text)
    /\ SubSeq(text, i, i + 4) = <<"R", "H", "E", "L", "-">>
    /\ \A j \in {5, 6} \cup (8..13) : text[i + j] \in Digits
    /\ text[i + 7] = "-"

\* re.findall(rhel_pattern, text), from position i on
RECURSIVE FindAllRhel(_, _)
FindAllRhel(text, i) ==
    IF i > Len(text) THEN <<>>
    ELSE IF RhelIdAt(text, i)
         THEN <<SubSeq(text, i, i + 13)>> \o FindAllRhel(text, i + 14)
         ELSE FindAllRhel(text, i + 1)

\* additional_fields['Plugin ID'] = row.get('Plugin ID') on the pairs so far
WithPluginID(pairs, frame, r) ==
    IF ~HasColumn(frame, colPluginID) THEN pairs
    ELSE IF \E i \in DOMAIN pairs : pairs[i][1] = colPluginID
         THEN [i \in DOMAIN pairs |->
                  IF pairs[i][1] = colPluginID
                  THEN <<colPluginID, NumberOfCell(frame, r, colPluginID)>>
                  ELSE pairs[i]]
         ELSE Append(pairs, <<colPluginID, NumberOfCell(frame, r, colPluginID)>>)

\* lines 450-489: one result for each identifier found in the Description
DescriptionResultsOfRow(frame, r, coerces) ==
    LET description == StrOfCell(frame, r, colDescription)
        matches == FindAllRhel(description, 1)
        used == {colDescription, status_col(frame), severity_col(frame),
                 hostname_col(frame)}
    IN  [m \in DOMAIN matches |->
            ComplianceScanResult(
              [compliance_id |-> matches[m],
               status |-> StrippedOr(frame, r, status_col(frame), txtUnknown),
               severity |-> SeverityOr(frame, r, severity_col(frame), coerces),
               hostname |-> StrippedOr(frame, r, hostname_col(frame), PyNone),
               description |-> description,
               additional_fields |->
                   WithPluginID(AdditionalFields(frame, r, used), frame, r)])]

DescriptionResults(frame, coerces) ==
    JoinRows([r \in DOMAIN frame.rows |->
                 DescriptionResultsOfRow(frame, r, coerces)], 1)

prefixPlugin == <<"P", "l", "u", "g", "i", "n", "-">>

\* lines 498-529 with the plugin id left as it is in the cell
PluginResultOfRow_Untrimmed(frame, r, coerces) ==
    LET used == {colPluginID, status_col(frame), severity_col(frame),
                 hostname_col(frame), colDescription}
    IN  IF isna(CellAt(frame, r, colPluginID)) \/ IsZero(CellAt(frame, r, colPluginID))
        THEN <<>>
        ELSE <<ComplianceScanResult(
                 [compliance_id |-> prefixPlugin \o StrOfCell(frame, r, colPluginID),
                  status |-> StrippedOr(frame, r, status_col(frame), txtUnknown),
                  severity |-> SeverityOr(frame, r, severity_col(frame), coerces),
                  hostname |-> StrippedOr(frame, r, hostname_col(frame), PyNone),
                  description |->
                      StrippedOr(frame, r,
                                 IF HasColumn(frame, colDescription)
                                 THEN colDescription ELSE PyNone, PyNone),
                  additional_fields |-> AdditionalFields(frame, r, used)])>>

\* lines 498-529: the identifiers are made of the cells of the Plugin ID column
PluginResultOfRow(frame, r, coerces) ==
    LET used == {colPluginID, status_col(frame), severity_col(frame),
                 hostname_col(frame), colDescription}
        plugin_id == Strip(StrOfCell(frame, r, colPluginID))
    IN  IF isna(CellAt(frame, r, colPluginID)) \/ IsZero(CellAt(frame, r, colPluginID))
        THEN <<>>
        ELSE <<ComplianceScanResult(
                 [compliance_id |-> prefixPlugin \o plugin_id,
                  status |-> StrippedOr(frame, r, status_col(frame), txtUnknown),
                  severity |-> SeverityOr(frame, r, severity_col(frame), coerces),
                  hostname |-> StrippedOr(frame, r, hostname_col(frame), PyNone),
                  description |->
                      StrippedOr(frame, r,
                                 IF HasColumn(frame, colDescription)
                                 THEN colDescription ELSE PyNone, PyNone),
                  additional_fields |-> AdditionalFields(frame, r, used)])>>

PluginResults(frame, coerces) ==
    JoinRows([r \in DOMAIN frame.rows |-> PluginResultOfRow(frame, r, coerces)], 1)

txtComplianceColon == <<"C", "o", "m", "p", "l", "i", "a", "n", "c", "e", ":">>

NessusIdChars == Range(UpperCase) \cup Digits \cup {"-"}

\* the end of the run of characters of the set S that starts at position i
RECURSIVE RunEnd(_, _, _)
RunEnd(text, i, S) ==
    IF i <= Len(text) /\ text[i] \in S THEN RunEnd(text, i + 1, S) ELSE i

\* re.search(r'Compliance:\s+([A-Z0-9-]+)', text) matches at position i
NessusIdAt(text, i) ==
    LET ws == i + Len(txtComplianceColon)
        id == RunEnd(text, ws, Whitespace)
    IN  /\ ws - 1 <= Len(text)
        /\ SubSeq(text, i, ws - 1) = txtComplianceColon
        /\ id > ws
        /\ RunEnd(text, id, NessusIdChars) > id

\* group 1 of the first match, or None
NessusIdSearch(text) ==
    LET hits == {i \in DOMAIN text : NessusIdAt(text, i)}
    IN  IF hits = {} THEN PyNone
        ELSE LET i == CHOOSE h \in hits : \A j \in hits : h <= j
                 id == RunEnd(text, i + Len(txtComplianceColon), Whitespace)
             IN  SubSeq(text, id, RunEnd(text, id, NessusIdChars) - 1)

\* a value that the model ComplianceScanResult rejects
Invalid == <<"invalid_">>

\* row.get(col, default) as a text field of the model: a model that coerces
\* takes the text of a number and of a missing cell, one that does not
\* rejects both
TextFieldOfGet(frame, r, col, default, coerces) ==
    IF ~HasColumn(frame, col) THEN default
    ELSE IF IsTextCell(CellAt(frame, r, col)) THEN CellAt(frame, r, col)
    ELSE IF coerces THEN StrOfCell(frame, r, col)
    ELSE Invalid

\* row.get(col) as the severity field of the model
SeverityFieldOfGet(frame, r, col, coerces) ==
    IF ~HasColumn(frame, col) THEN PyNone
    ELSE IF isna(CellAt(frame, r, col))
         THEN IF coerces THEN StrOfCell(frame, r, col) ELSE Invalid
    ELSE SeverityField(frame, r, col, coerces)

colObject == <<"O", "b", "j", "e", "c", "t">>

colScannerSeverity == <<"S", "c", "a", "n", "n", "e", "r", " ", "S", "e", "v", "e", "r", "i", "t", "y">>

colAssetIdentifier == <<"A", "s", "s", "e", "t", " ", "I", "d", "e", "n", "t", "i", "f", "i", "e", "r">>

colShortDesc == <<"S", "h", "o", "r", "t", " ", "D", "e", "s", "c">>

colRiskStatement == <<"R", "i", "s", "k", " ", "S", "t", "a", "t", "e", "m", "e", "n", "t">>

\* lines 353-384: the identifier is read out of the Unique ID cell; a row
\* whose values the model rejects is reported and left out
NessusResultOfRow(frame, r, coerces) ==
    LET unique_id == CellAt(frame, r, colUniqueID)
        used == {colUniqueID, colObject, colScannerSeverity,
                 colAssetIdentifier, colShortDesc, colRiskStatement}
        fields ==
            [status |-> TextFieldOfGet(frame, r, colObject, txtUnknown, coerces),
             severity |-> SeverityFieldOfGet(frame, r, colScannerSeverity, coerces),
             hostname |-> TextFieldOfGet(frame, r, colAssetIdentifier, PyNone, coerces),
             description |-> TextFieldOfGet(frame, r, colShortDesc, PyNone, coerces),
             details |-> TextFieldOfGet(frame, r, colRiskStatement, PyNone, coerces)]
    IN  IF ~IsTextCell(unique_id) \/ ~Contains(unique_id, txtComplianceColon)
        THEN <<>>
        ELSE IF NessusIdSearch(unique_id) = PyNone THEN <<>>
        ELSE IF \E f \in DOMAIN fields : fields[f] = Invalid THEN <<>>
        ELSE <<ComplianceScanResult(
                 fields @@
                 [compliance_id |-> NessusIdSearch(unique_id),
                  additional_fields |-> AdditionalFields(frame, r, used)])>>

NessusResults(frame, coerces) ==
    JoinRows([r \in DOMAIN frame.rows |-> NessusResultOfRow(frame, r, coerces)], 1)

\* the path load_scan_results takes on a table
LoadPath(frame, coerces) ==
    IF HasColumn(frame, colUniqueID) /\ StrAccessorRaises(frame, colUniqueID)
    THEN "error"
    ELSE IF HasColumn(frame, colUniqueID)
            /\ StrContainsAny(frame, colUniqueID, txtComplianceColon)
    THEN "nessus"
    ELSE IF compliance_id_col(frame) # PyNone THEN "column"
    ELSE IF HasColumn(frame, colDescription)
            /\ DescriptionResults(frame, coerces) # <<>>
    THEN "description"
    ELSE IF HasColumn(frame, colPluginID) THEN "plugin"
    ELSE "none"

\* load_scan_results on the table that pd.read_csv made of the file; an
\* exception of the body is reported and the empty list returned
load_scan_results(frame, coerces) ==
    CASE LoadPath(frame, coerces) = "error" -> <<>>
      [] LoadPath(frame, coerces) = "nessus" -> NessusResults(frame, coerces)
      [] LoadPath(frame, coerces) = "column" -> ColumnResults(frame, coerces)
      [] LoadPath(frame, coerces) = "description" -> DescriptionResults(frame, coerces)
      [] LoadPath(frame, coerces) = "plugin" -> PluginResults(frame, coerces)
      [] OTHER -> <<>>

----------------------------------------------------------------------------
(* The run of load_scan_results on a table *)

colID == <<"I", "D">>

colStigID == <<"S", "T", "I", "G", " ", "I", "D">>

colComplianceID == <<"C", "o", "m", "p", "l", "i", "a", "n", "c", "e", " ", "I", "D">>

colStatus == <<"S", "t", "a", "t", "u", "s">>

colSeverity == <<"S", "e", "v", "e", "r", "i", "t", "y">>

colHost == <<"H", "o", "s", "t">>

colName == <<"N", "a", "m", "e">>

colPort == <<"P", "o", "r", "t">>

idRhel8 == <<"R", "H", "E", "L", "-", "0", "8", "-", "0", "1", "0", "0", "3", "0">>

txtTwoRhelIds == <<"s", "e", "e", " ", "R", "H", "E", "L", "-", "0", "8", "-", "0", "1", "0", "0", "3", "0", ",", "R", "H", "E", "L", "-", "0", "7", "-", "0", "2", "0", "0", "1", "0">>

txtNessusRhel8 == <<"C", "o", "m", "p", "l", "i", "a", "n", "c", "e", ":", " ", "R", "H", "E", "L", "-", "0", "8", "-", "0", "1", "0", "0", "3", "0", " ", "-", " ", "x">>

txtNessusNoSpace == <<"C", "o", "m", "p", "l", "i", "a", "n", "c", "e", ":", "R", "H", "E", "L">>

txtNessusPlugin == <<"C", "o", "m", "p", "l", "i", "a", "n", "c", "e", ":", " ", " ", "P", "l", "u", "g", "i", "n", "-", "1", "7">>

int17 == PyInt(<<"1", "7">>)

int18 == PyInt(<<"1", "8">>)

\* the tables: the labels of the columns and the rows to draw from
FrameLayouts ==
    { [columns |-> <<colID, colStigID, colStatus, colPluginID>>,
       rows |-> { <<PyInt(<<"7">>), <<"V", "-", "1", " ">>, <<"O", "p", "e", "n">>, int17>>,
                  <<PyInt(<<"8">>), PyNaN, <<"O", "p", "e", "n">>, int17>>,
                  <<PyNaN, idRhel8, PyNaN, PyNaN>> }],
      [columns |-> <<colComplianceID, colUniqueID, colStatus>>,
       rows |-> { <<idX1, PyInt(<<"5">>), <<"O", "p", "e", "n">>>>,
                  <<idY2, PyNaN, txtFail>>,
                  <<idZ3, <<"u", "-", "9">>, <<"O", "p", "e", "n">>>> }],
      [columns |-> <<colDescription, colPluginID, colSeverity, colHost>>,
       rows |-> { <<idRhel8, int17, <<"H", "i", "g", "h">>, txtHost>>,
                  <<txtTwoRhelIds, int18, PyNaN, txtHost>>,
                  <<<<"n", "/", "a">>, int18, PyNaN, PyNaN>>,
                  <<PyNaN, PyNaN, <<"L", "o", "w">>, txtHost>> }],
      [columns |-> <<colPluginID, colName>>,
       rows |-> { <<<<"1", "9", " ">>, <<"a">>>>,
                  <<PyNaN, <<"b">>>>,
                  <<int17, <<"c">>>>,
                  <<PyInt(<<"0">>), <<"d">>>> }],
      [columns |-> <<colUniqueID, colObject, colAssetIdentifier, colPluginID>>,
       rows |-> { <<txtNessusRhel8, <<"F", "A", "I", "L", "E", "D">>, txtHost, int17>>,
                  <<txtNessusNoSpace, PyNaN, txtHost, int17>>,
                  <<txtNessusPlugin, PyNaN, PyNaN, PyNaN>>,
                  <<<<"u", "-", "9">>, <<"P", "A", "S", "S", "E", "D">>, PyNaN, int18>> }],
      [columns |-> <<colName, colHost>>,
       rows |-> { <<<<"a">>, txtHost>>, <<<<"b">>, PyNaN>> }],
      [columns |-> <<colPluginID, colPort>>,
       rows |-> { <<int17, PyInt(<<"8", "0">>)>>,
                  <<int18, PyNaN>>,
                  <<PyNaN, PyInt(<<"4", "4", "3">>)>> }] }

\* pd.read_csv reads a column either as text or as numbers: no column has
\* both a text cell and a number
ReadCsvCanReturn(frame) ==
    \A k \in DOMAIN frame.columns :
        ~ /\ \E r \in DOMAIN frame.rows : IsTextCell(frame.rows[r][k])
          /\ \E r \in DOMAIN frame.rows : IsInt(frame.rows[r][k])

FramePool ==
    {frame \in UNION {{[columns |-> l.columns, rows |-> rs] :
                          rs \in SeqsUpTo(l.rows, MaxLoadRows)} : l \in FrameLayouts} :
        ReadCsvCanReturn(frame)}

InitLoad ==
    /\ pc = "start"
    /\ mode = "none"
    /\ df \in FramePool
    /\ MatchingIdle
    /\ ExtractionIdle
    /\ SubstitutingIdle
    /\ NormalizingIdle
    /\ ControllingIdle
    /\ ParsingIdle

LoadScanResults ==
    /\ pc = "start"
    /\ \E coerces \in BOOLEAN :
          scan_results' = load_scan_results(df, coerces)
    /\ pc' = "loaded"
    /\ UNCHANGED <<mode, df, smartsheet_results, result, findings, extraction,
                   substituting, normalizing, controlling, parsing>>

NextLoad == LoadScanResults

SpecLoad == InitLoad /\ [][NextLoad]_vars

----------------------------------------------------------------------------
(* Vocabulary of the properties *)

\* the number of times each element occurs in a list
BagOf(s) == [e \in Range(s) |-> Cardinality({i \in DOMAIN s : s[i] = e})]

\* a dict without one key
Without(d, key) == [k \in DOMAIN d \ {key} |-> d[k]]

WithoutSource(items) == [i \in DOMAIN items |-> Without(items[i], "Source")]

\* the four status buckets, one after the other
StatusBuckets == {"should_fix", "approved", "review", "unassessed"}

AllBucketed ==
    findings.should_fix \o findings.approved \o findings.review \o findings.unassessed

\* the identifier by which the variant that ran compares two items
Key(item) ==
    IF mode = "poam" THEN Strip(PyStr(item.compliance_id)) ELSE item.compliance_id

\* the identifiers present on both sides
MatchedIdSet ==
    {Key(scan_results[i]) : i \in {k \in DOMAIN scan_results :
        /\ Truthy(scan_results[k].compliance_id)
        /\ \E j \in DOMAIN smartsheet_results :
              /\ Truthy(smartsheet_results[j].compliance_id)
              /\ Key(smartsheet_results[j]) = Key(scan_results[k])}}

\* items[i] is the first item of the list with its identifier
IsFirstOccurrence(items, i) == \A k \in 1..(i - 1) : Key(items[k]) # Key(items[i])

\* the matched items that carry the identifier of register item r
MatchedOf(r) ==
    {k \in DOMAIN result.matched_items :
        IF mode = "poam"
        THEN result.matched_items[k].compliance_id = r.compliance_id
        ELSE result.matched_items[k]["Compliance ID"] = r.compliance_id}

ReviewWords ==
    { <<"r", "e", "v", "i", "e", "w">>, <<"p", "e", "n", "d", "i", "n", "g">> }

ApprovalWords ==
    { <<"a", "p", "p", "r", "o", "v", "e", "d">>, <<"a">>,
      <<"a", "c", "c", "e", "p", "t">>,
      <<"c", "o", "m", "p", "l", "i", "a", "n", "t">>, <<"p", "a", "s", "s">> }

\* the text st, lowercased, contains one of the words
HasWord(st, words) == st # PyNone /\ \E w \in words : Contains(Lower(st), w)

\* the bucket entries made from register item r of a pair, or from r alone
InBucket(bucket, r) ==
    \E i \in DOMAIN findings[bucket] :
        /\ findings[bucket][i].compliance_id = r.compliance_id
        /\ findings[bucket][i].deviation_status = r.deviation_status
        /\ findings[bucket][i].should_fix = r.should_fix

----------------------------------------------------------------------------
(* Properties *)

\* C1: categorize_findings places every item of matched_items and of
\* unmatched_smartsheet_items in exactly one of the four status buckets: the
\* buckets together hold each of these items as often as the two lists do, and
\* their sizes sum to len(matched_items) + len(unmatched_smartsheet_items).
C1_BucketsPartitionItems ==
    pc = "categorized" =>
        /\ BagOf(WithoutSource(AllBucketed))
               = BagOf(WithoutSource(result.matched_items)
                       \o result.unmatched_smartsheet_items)
        /\ Len(findings.should_fix) + Len(findings.approved)
               + Len(findings.review) + Len(findings.unassessed)
               = Len(result.matched_items) + Len(result.unmatched_smartsheet_items)

\* C1 witness: a matched item and a register-only item were bucketed, into
\* two different buckets.
C1_Witness ==
    /\ pc = "categorized"
    /\ result.matched_items # <<>>
    /\ result.unmatched_smartsheet_items # <<>>
    /\ Cardinality({b \in StatusBuckets : findings[b] # <<>>}) >= 2

\* C2: every item whose should_fix is true is in the should_fix bucket and in
\* no other bucket, whatever its deviation_status text.
C2_ShouldFixFirst ==
    pc = "categorized" =>
        /\ \A b \in StatusBuckets \ {"should_fix"} : \A i \in DOMAIN findings[b] :
              findings[b][i].should_fix # PyTrue
        /\ \A i \in DOMAIN result.matched_items :
              result.matched_items[i].should_fix = PyTrue
                  => InBucket("should_fix", result.matched_items[i])
        /\ \A i \in DOMAIN result.unmatched_smartsheet_items :
              result.unmatched_smartsheet_items[i].should_fix = PyTrue
                  => InBucket("should_fix", result.unmatched_smartsheet_items[i])

\* C2 witness: an item with should_fix true and status "Approved" was bucketed.
C2_Witness ==
    /\ pc = "categorized"
    /\ \E i \in DOMAIN findings.should_fix :
          /\ findings.should_fix[i].should_fix = PyTrue
          /\ findings.should_fix[i].deviation_status = txtApproved

\* C3 (as claimed): an item whose should_fix is not true and whose
\* deviation_status is null, blank or the unrecognized text "draft" is in the
\* unassessed bucket, and in neither approved nor review.
C3_DraftUnassessed ==
    pc = "categorized" =>
        \A b \in StatusBuckets \ {"unassessed"} : \A i \in DOMAIN findings[b] :
            ~ /\ findings[b][i].should_fix # PyTrue
              /\ \/ findings[b][i].deviation_status = PyNone
                 \/ Strip(findings[b][i].deviation_status) = <<>>
                 \/ findings[b][i].deviation_status = txtDraft

C5_MatchCount ==
    pc \in {"compared", "categorized"} =>
        /\ result.scan_count = Len(scan_results)
        /\ result.smartsheet_count = Len(smartsheet_results)
        /\ result.match_count = Len(result.matched_items)
        /\ result.match_count <= result.scan_count
        /\ result.match_count <= result.smartsheet_count

\* C5 witness: a matched identifier occurs twice among the Findings and twice
\* among the RegisterItems.
C5_Witness ==
    /\ pc = "compared"
    /\ result.match_count = 1
    /\ \E i, k \in DOMAIN scan_results :
          i < k /\ Key(scan_results[i]) = Key(scan_results[k])
               /\ Key(scan_results[i]) \in MatchedIdSet
    /\ \E j, l \in DOMAIN smartsheet_results :
          j < l /\ Key(smartsheet_results[j]) = Key(smartsheet_results[l])
               /\ Key(smartsheet_results[j]) \in MatchedIdSet

\* the fields of a matched item that come from the Finding and the RegisterItem
PairedFrom(m, f, r) ==
    /\ m.Status = f.status
    /\ IF mode = "poam"
       THEN /\ m.deviation_status = r.deviation_status
            /\ m.should_fix = r.should_fix
            /\ m.compliance_id = r.compliance_id
       ELSE /\ m["Deviation Status"] = r.deviation_status
            /\ m["Should Fix"] = r.should_fix

\* the identifier a matched item was built for
MatchedKey(m) ==
    IF mode = "poam" THEN Strip(PyStr(m.compliance_id)) ELSE m["Compliance ID"]

\* C6: for an identifier present on both sides, the one matched item is built
\* from the first Finding and the first RegisterItem with it, in input order,
\* and no unmatched list holds an item with that identifier: a later occurrence
\* is in neither.
C6_FirstOccurrenceOnly ==
    pc = "compared" =>
        \A id \in MatchedIdSet :
            /\ Cardinality({k \in DOMAIN result.matched_items :
                               MatchedKey(result.matched_items[k]) = id}) = 1
            /\ \A k \in DOMAIN result.matched_items :
                  MatchedKey(result.matched_items[k]) = id =>
                      \E i \in DOMAIN scan_results : \E j \in DOMAIN smartsheet_results :
                          /\ Key(scan_results[i]) = id
                          /\ Key(smartsheet_results[j]) = id
                          /\ IsFirstOccurrence(scan_results, i)
                          /\ IsFirstOccurrence(smartsheet_results, j)
                          /\ PairedFrom(result.matched_items[k],
                                        scan_results[i], smartsheet_results[j])
            /\ \A k \in DOMAIN result.unmatched_scan_items :
                  Key(result.unmatched_scan_items[k]) # id
            /\ \A k \in DOMAIN result.unmatched_smartsheet_items :
                  Key(result.unmatched_smartsheet_items[k]) # id

\* C6 witness: the POAM-mode matcher has run on Findings X1 "Fail", X1 "[FAILED]"
\* in one of the two orders and two different RegisterItems X1.
C6_Witness ==
    /\ pc = "compared"
    /\ mode = "poam"
    /\ Len(scan_results) = 2
    /\ Key(scan_results[1]) = idX1
    /\ Key(scan_results[2]) = idX1
    /\ scan_results[1].status # scan_results[2].status
    /\ \E j, l \in DOMAIN smartsheet_results :
          /\ j < l
          /\ smartsheet_results[j].compliance_id = idX1
          /\ smartsheet_results[l].compliance_id = idX1
          /\ smartsheet_results[j].deviation_status # smartsheet_results[l].deviation_status

\* the Findings whose identifier is not a matched one, in input order
FindingsNotMatched ==
    SelectIdx(scan_results,
              {i \in DOMAIN scan_results : Key(scan_results[i]) \notin MatchedIdSet}, 1)

\* C7 (as claimed): in both variants unmatched_scan_items is the list, in input
\* order, of all Findings whose identifier is not matched, whatever their
\* status text, and categorize_findings puts exactly these in missing_from_scm.
C7_UnmatchedFindingsClaimed ==
    /\ pc = "compared" => result.unmatched_scan_items = FindingsNotMatched
    /\ pc = "categorized" =>
          /\ result.unmatched_scan_items = FindingsNotMatched
          /\ findings.missing_from_scm = result.unmatched_scan_items

\* a status text that names a failed or warning check and no passed one
FailedOrWarning(status) ==
    /\ Truthy(status)
    /\ ~Contains(status, txtPassed)
    /\ ~Contains(status, <<"[", "P", "A", "S", "S", "]">>)
    /\ \/ Contains(status, txtFailed)
       \/ Contains(status, <<"[", "W", "A", "R", "N", "I", "N", "G", "]">>)

\* C7 (amended): in POAM mode unmatched_scan_items is the list, in input order,
\* of all Findings whose trimmed identifier is not matched, whatever their
\* status, and categorize_findings puts exactly these in missing_from_scm.  In
\* CSV mode it is the list of those unmatched Findings whose status contains
\* [FAILED] or [WARNING] and neither [PASSED] nor [PASS]; when there is no
\* such Finding it is the first 100 of all unmatched Findings.
C7_UnmatchedFindings ==
    LET failing == SelectIdx(FindingsNotMatched,
                       {i \in DOMAIN FindingsNotMatched :
                           FailedOrWarning(FindingsNotMatched[i].status)}, 1)
    IN  /\ (pc = "compared" /\ mode = "poam") =>
              result.unmatched_scan_items = FindingsNotMatched
        /\ (pc = "compared" /\ mode = "csv") =>
              result.unmatched_scan_items
                  = IF failing # <<>> THEN failing
                    ELSE SubSeq(FindingsNotMatched, 1,
                                IF Len(FindingsNotMatched) < 100
                                THEN Len(FindingsNotMatched) ELSE 100)
        /\ pc = "categorized" =>
              /\ result.unmatched_scan_items = FindingsNotMatched
              /\ findings.missing_from_scm = result.unmatched_scan_items

\* C7 witness: the CSV-mode matcher has left out an unmatched Finding with a
\* passed status and kept one with a failed status.
C7_Witness ==
    /\ pc = "compared"
    /\ mode = "csv"
    /\ result.unmatched_scan_items # <<>>
    /\ Len(result.unmatched_scan_items) < Len(FindingsNotMatched)

\* C8 (as claimed): unmatched_smartsheet_items holds exactly the RegisterItems
\* whose identifier is present (not null, and not the empty text that the
\* extractor treats like null) and not matched; a RegisterItem with a null
\* identifier is neither in unmatched_smartsheet_items nor in matched_items.
C8_UnmatchedRegisterItems ==
    pc = "compared" =>
        /\ result.unmatched_smartsheet_items
               = SelectIdx(smartsheet_results,
                           {j \in DOMAIN smartsheet_results :
                               /\ Truthy(smartsheet_results[j].compliance_id)
                               /\ Key(smartsheet_results[j]) \notin MatchedIdSet}, 1)
        /\ \A k \in DOMAIN result.unmatched_smartsheet_items :
              result.unmatched_smartsheet_items[k].compliance_id # PyNone
        /\ \A k \in DOMAIN result.matched_items :
              MatchedKey(result.matched_items[k]) \in MatchedIdSet

----------------------------------------------------------------------------
(* Vocabulary of the properties of extract_compliance_items *)

\* the text in which every occurrence, in any case, of [placeholder] is
\* replaced by the value taken as it is written
RECURSIVE ReplacedLiterally(_, _, _, _)
ReplacedLiterally(text, token, value, i) ==
    IF i > Len(text) THEN <<>>
    ELSE IF MatchAt(text, token, i)
    THEN value \o ReplacedLiterally(text, token, value, i + Len(token))
    ELSE <<text[i]>> \o ReplacedLiterally(text, token, value, i + 1)

\* the text after that replacement for every pair of the placeholder map, in
\* the order of the map
RECURSIVE Substituted(_, _, _)
Substituted(placeholder_mapping, text, k) ==
    IF k > Len(placeholder_mapping) THEN text
    ELSE Substituted(placeholder_mapping,
                     ReplacedLiterally(text,
                         <<"[">> \o placeholder_mapping[k][1] \o <<"]">>,
                         placeholder_mapping[k][2], 1),
                     k + 1)

\* the columns the variant that has run resolves the fields to
ResolvedColumns == ColumnIds(compliance_sheet_data.columns, mode)

\* the rows of the sheet whose identifier cell and rationale cell both hold a
\* non-empty text: rows that either variant keeps
RowsWithIdAndRationale ==
    {k \in DOMAIN compliance_sheet_data.rows :
        /\ {"compliance_id", "deviation_rationale"} \subseteq DOMAIN ResolvedColumns
        /\ Truthy(CellValue(compliance_sheet_data.rows[k],
                            ResolvedColumns.compliance_id))
        /\ Truthy(CellValue(compliance_sheet_data.rows[k],
                            ResolvedColumns.deviation_rationale))}

\* C9 (as claimed): neither variant of extract_compliance_items returns an item
\* for a row whose identifier cell is null or empty: every returned item has a
\* compliance_id that is neither None nor the empty text.
C9_NoItemWithoutIdentifier ==
    pc = "extracted" =>
        \A i \in DOMAIN compliance_items :
            compliance_items[i].compliance_id \notin {PyNone, <<>>}

\* C10 (as claimed): when extract_compliance_items returns, every row it kept
\* has an item whose deviation_rationale is the text of the row's rationale
\* cell with every occurrence, in any case, of [name] replaced by the value of
\* name, for every name of the placeholder map, and nothing else changed.
C10_RationaleSubstituted ==
    (pc = "extracted" /\ ~raised) =>
        \A k \in RowsWithIdAndRationale :
            \E i \in DOMAIN compliance_items :
                /\ compliance_items[i].compliance_id
                       = CellValue(compliance_sheet_data.rows[k],
                                   ResolvedColumns.compliance_id)
                /\ compliance_items[i].deviation_rationale
                       = Substituted(to_dict(client_controls.controls),
                                     CellValue(compliance_sheet_data.rows[k],
                                               ResolvedColumns.deviation_rationale),
                                     1)

----------------------------------------------------------------------------
(* Vocabulary of the properties of the placeholder loop *)

HasBracket(text) == \E i \in DOMAIN text : text[i] \in {"[", "]"}

\* no placeholder name and no value of the client holds a bracket
BracketFreeControls ==
    \A k \in DOMAIN client_controls.controls :
        /\ ~HasBracket(client_controls.controls[k].placeholder)
        /\ ~HasBracket(client_controls.controls[k].value)

\* a bracket pair inside a bracket pair: [ .. [ .. ] .. ]
NestedBrackets(text) ==
    \E i, j, k, l \in DOMAIN text :
        /\ i < j /\ j < k /\ k < l
        /\ text[i] = "[" /\ text[j] = "[" /\ text[k] = "]" /\ text[l] = "]"

\* the text holds the token of a name of the placeholder map, in any case
KnownTokenIn(text) ==
    \E k \in DOMAIN client_controls.controls :
        \E i \in DOMAIN text :
            MatchAt(text, <<"[">> \o client_controls.controls[k].placeholder
                               \o <<"]">>, i)

----------------------------------------------------------------------------
(* Vocabulary of the properties of the placeholder bookkeeping *)

\* the text holds the token, in any case
TokenIn(text, token) == \E i \in DOMAIN text : MatchAt(text, token, i)

\* the names of the placeholder map whose token is replaced at least once when
\* the pairs of the map are applied to the text in the order of the map
RECURSIVE ReplacedNames(_, _, _)
ReplacedNames(placeholder_mapping, text, k) ==
    IF k > Len(placeholder_mapping) THEN {}
    ELSE LET token == <<"[">> \o placeholder_mapping[k][1] \o <<"]">>
         IN  (IF TokenIn(text, token) THEN {placeholder_mapping[k][1]} ELSE {})
             \cup ReplacedNames(placeholder_mapping,
                                ReplacedLiterally(text, token,
                                                  placeholder_mapping[k][2], 1),
                                k + 1)

\* C12 (as claimed): every item returned by either variant of
\* extract_compliance_items carries, for its row, replaced_placeholders equal
\* to the set of the placeholder names whose token was replaced in the
\* rationale, and original_rationale equal to the rationale cell's text.
C12_PlaceholderBookkeeping ==
    (pc = "extracted" /\ ~raised) =>
        \A k \in RowsWithIdAndRationale :
            \E i \in DOMAIN compliance_items :
                /\ compliance_items[i].compliance_id
                       = CellValue(compliance_sheet_data.rows[k],
                                   ResolvedColumns.compliance_id)
                /\ compliance_items[i].original_rationale
                       = CellValue(compliance_sheet_data.rows[k],
                                   ResolvedColumns.deviation_rationale)
                /\ compliance_items[i].replaced_placeholders
                       = ReplacedNames(to_dict(client_controls.controls),
                                       CellValue(compliance_sheet_data.rows[k],
                                                 ResolvedColumns.deviation_rationale),
                                       1)


----------------------------------------------------------------------------
(* Vocabulary of the properties of extract_client_controls *)

ControlsReturned == pc \in {"controls", "mapped"}

titleCloudProvider == <<"C", "l", "o", "u", "d", "_", "P", "r", "o", "v", "i", "d", "e", "r">>

nameCloudJoined == <<"c", "l", "o", "u", "d", "p", "r", "o", "v", "i", "d", "e", "r">>

\* the cells of the rows of the selected client that have a value and a
\* titled column other than CLIENT, each as <<row, cell>> positions
TargetCells ==
    LET columns == control_sheet_data.columns
        rows == control_sheet_data.rows
    IN  {rc \in UNION {{<<r, c>> : c \in DOMAIN rows[r].cells} : r \in DOMAIN rows} :
            /\ \E k \in DOMAIN columns :
                  /\ columns[k].title = titleCLIENT
                  /\ \E j \in DOMAIN rows[rc[1]].cells :
                        /\ rows[rc[1]].cells[j].column_id = columns[k].id
                        /\ rows[rc[1]].cells[j].value = selected_client
                  /\ rows[rc[1]].cells[rc[2]].column_id # columns[k].id
            /\ \E k \in DOMAIN columns :
                  columns[k].id = rows[rc[1]].cells[rc[2]].column_id
            /\ rows[rc[1]].cells[rc[2]].value # PyNone}

CellOf(rc) == control_sheet_data.rows[rc[1]].cells[rc[2]]

\* the label of the column of a cell
LabelOf(rc) ==
    LET columns == control_sheet_data.columns
    IN  columns[CHOOSE k \in DOMAIN columns :
                    columns[k].id = CellOf(rc).column_id].title

\* the value a cell is shown with
ShownValue(rc) ==
    IF CellOf(rc).display_value # PyNone
    THEN CellOf(rc).display_value ELSE CellOf(rc).value

\* the placeholder names returned with the value of a cell; every cell of
\* the control rows has a value of its own
NamesOf(rc) ==
    {client_controls.controls[i].placeholder :
        i \in {i \in DOMAIN client_controls.controls :
                  client_controls.controls[i].value = ShownValue(rc)}}

\* C13 as stated: a cell of the column labeled Cloud_Provider, in a row of
\* the selected client and with a value, gives exactly the two placeholder
\* names cloud_provider and cloud provider.
C13_CloudProviderNamesClaimed ==
    ControlsReturned =>
        \A rc \in TargetCells :
            LabelOf(rc) = titleCloudProvider =>
                NamesOf(rc) = {nameCloudUnderscore, nameCloudSpace}

\* C13, as the code has it: a cell of the column labeled Cloud_Provider, in a
\* row of the selected client and with a value, gives exactly the three
\* placeholder names cloud_provider, cloud provider and cloudprovider.
C13_CloudProviderNames ==
    ControlsReturned =>
        \A rc \in TargetCells :
            LabelOf(rc) = titleCloudProvider =>
                NamesOf(rc) = {nameCloudUnderscore, nameCloudSpace, nameCloudJoined}

C13_Witness ==
    /\ ControlsReturned
    /\ \E rc \in TargetCells :
          /\ LabelOf(rc) = titleCloudProvider
          /\ nameCloudJoined \in NamesOf(rc)


\* the label has an underscore or a space
HasSeparator(label) == "_" \in Range(label) \/ " " \in Range(label)

UnderscoreForm(label) == ReplaceChar(Lower(label), " ", "_")

SpaceForm(label) == ReplaceChar(Lower(label), "_", " ")

\* one pair for every name of every processed cell
CellNames == UNION {{<<rc, n>> : n \in NamesOf(rc)} : rc \in TargetCells}

\* C14: the placeholder names emitted for a processed cell are pairwise
\* distinct (the list holds one entry per cell and name), every entry carries
\* the value of its cell, and for a label with an underscore or a space both
\* the underscore form and the space form of the lowercased label are there.
C14_VariantsOfCell ==
    ControlsReturned =>
        /\ Len(client_controls.controls) = Cardinality(CellNames)
        /\ \A i \in DOMAIN client_controls.controls :
              \E rc \in TargetCells :
                  client_controls.controls[i].value = ShownValue(rc)
        /\ \A rc \in TargetCells :
              /\ Lower(LabelOf(rc)) \in NamesOf(rc)
              /\ HasSeparator(LabelOf(rc)) =>
                    /\ UnderscoreForm(LabelOf(rc)) \in NamesOf(rc)
                    /\ SpaceForm(LabelOf(rc)) \in NamesOf(rc)

C14_Witness ==
    /\ ControlsReturned
    /\ \E rc \in TargetCells :
          /\ "_" \in Range(LabelOf(rc))
          /\ " " \in Range(LabelOf(rc))
          /\ Cardinality(NamesOf(rc)) = 4
          /\ Cardinality(TargetCells) > 1


----------------------------------------------------------------------------
(* Vocabulary of the properties of normalize_boolean *)

Normalized == pc = "normalized"

IsText(value) == value \notin {PyNone, PyTrue, PyFalse}

TrueTokens ==
    {<<"t", "r", "u", "e">>, <<"y", "e", "s">>, <<"y">>, <<"1">>, <<"c", "h", "e", "c", "k", "e", "d">>, <<"x">>, <<"o", "n">>, <<"t">>}

FalseTokens ==
    {<<"f", "a", "l", "s", "e">>, <<"n", "o">>, <<"n">>, <<"0">>, <<"u", "n", "c", "h", "e", "c", "k", "e", "d">>, <<>>, <<"o", "f", "f">>, <<"f">>}

\* the text of the cell, trimmed and in lower case
TrimmedLower(value) == Lower(Strip(value))

\* C15: the trimmed, lowercased text of a should_fix cell gives true for
\* true, yes, y, 1, checked, x, on, t, false for false, no, n, 0, unchecked,
\* the empty text, off, f, and None for every other text, so a text that is
\* no token never gives false.
C15_BooleanTokens ==
    Normalized /\ IsText(raw_value) =>
        /\ TrimmedLower(raw_value) \in TrueTokens => normalized_value = <<PyTrue>>
        /\ TrimmedLower(raw_value) \in FalseTokens => normalized_value = <<PyFalse>>
        /\ TrimmedLower(raw_value) \notin TrueTokens \cup FalseTokens =>
              normalized_value = <<PyNone>>

C15_Witness ==
    /\ Normalized
    /\ IsText(raw_value)
    /\ raw_value # TrimmedLower(raw_value)
    /\ TrimmedLower(raw_value) \notin TrueTokens \cup FalseTokens
    /\ normalized_value = <<PyNone>>


\* the row has a cell of a column titled CLIENT with exactly this value
RowOfClient(row, client) ==
    \E k \in DOMAIN control_sheet_data.columns :
        /\ control_sheet_data.columns[k].title = titleCLIENT
        /\ \E j \in DOMAIN row.cells :
              /\ row.cells[j].column_id = control_sheet_data.columns[k].id
              /\ row.cells[j].value = client

MatchingRows ==
    {r \in DOMAIN control_sheet_data.rows :
        RowOfClient(control_sheet_data.rows[r], selected_client)}

\* the control sheet with the rows of the selected client only
SheetOfClient ==
    [columns |-> control_sheet_data.columns,
     rows |-> SelectIdx(control_sheet_data.rows, MatchingRows, 1)]

\* the values shown in the cells, other than the first, of the other rows
ValuesOfOtherRows ==
    {IF row.cells[j].display_value # PyNone
     THEN row.cells[j].display_value ELSE row.cells[j].value :
        <<row, j>> \in {rj \in Range(control_sheet_data.rows) \X (2..3) :
                          /\ rj[2] \in DOMAIN rj[1].cells
                          /\ ~RowOfClient(rj[1], selected_client)}}

\* the cells extract_client_controls processes in a sheet, in order
ProcessedCells(sheet_data) ==
    ControlCells(sheet_data, selected_client, ClientColId(sheet_data.columns), 1)

\* the entries these cells give
ControlsOfCells(cells) ==
    UNION {{ControlValue(n, cells[k][2]) : n \in Variants(cells[k][1])} :
              k \in DOMAIN cells}

\* C16: extract_client_controls processes the cells, and returns the
\* entries, of the sheet reduced to the rows whose CLIENT cell equals the
\* selected client exactly; a row of a client written in another case or with a blank in
\* front gives no value; without a matching row the list is empty.
C16_OnlyRowsOfClient ==
    ControlsReturned =>
        /\ ProcessedCells(control_sheet_data) = ProcessedCells(SheetOfClient)
        /\ Range(client_controls.controls) = ControlsOfCells(ProcessedCells(SheetOfClient))
        /\ \A i \in DOMAIN client_controls.controls :
              client_controls.controls[i].value \notin ValuesOfOtherRows
        /\ MatchingRows = {} => client_controls.controls = <<>>
        /\ client_controls.client = selected_client

C16_Witness ==
    /\ ControlsReturned
    /\ selected_client = clientAcme
    /\ client_controls.controls # <<>>
    /\ MatchingRows # {}
    /\ \E r \in DOMAIN control_sheet_data.rows :
          control_sheet_data.rows[r].cells[1].value \in {clientAcmeLower, clientAcmePadded}


----------------------------------------------------------------------------
(* Vocabulary of the properties of to_dict *)

DictReturned == pc = "mapped"

\* a cell stands before another in row and cell order
Before(rc1, rc2) ==
    rc1[1] < rc2[1] \/ (rc1[1] = rc2[1] /\ rc1[2] < rc2[2])

\* the cells that give a name
CellsNaming(name) == {rc \in TargetCells : name \in NamesOf(rc)}

\* C17: to_dict has one entry per placeholder name, with the value of the
\* last entry of that name in the controls list, which is the value of the
\* last cell, in row and cell order, that gives the name.
C17_LastWriteWins ==
    DictReturned =>
        LET controls == client_controls.controls
        IN  /\ {placeholder_dict[i][1] : i \in DOMAIN placeholder_dict}
                  = {controls[j].placeholder : j \in DOMAIN controls}
            /\ \A i, j \in DOMAIN placeholder_dict :
                  placeholder_dict[i][1] = placeholder_dict[j][1] => i = j
            /\ \A i \in DOMAIN placeholder_dict :
                  /\ \E j \in DOMAIN controls :
                        /\ controls[j].placeholder = placeholder_dict[i][1]
                        /\ controls[j].value = placeholder_dict[i][2]
                        /\ \A k \in DOMAIN controls :
                              controls[k].placeholder = placeholder_dict[i][1] => k <= j
                  /\ \E rc \in CellsNaming(placeholder_dict[i][1]) :
                        /\ ShownValue(rc) = placeholder_dict[i][2]
                        /\ \A other \in CellsNaming(placeholder_dict[i][1]) :
                              ~Before(rc, other)

C17_Witness ==
    /\ DictReturned
    /\ \E i \in DOMAIN placeholder_dict :
          /\ \E rc1, rc2 \in CellsNaming(placeholder_dict[i][1]) :
                /\ rc1[1] < rc2[1]
                /\ ShownValue(rc1) # ShownValue(rc2)
                /\ ShownValue(rc2) = placeholder_dict[i][2]
          /\ \E rc1, rc2 \in CellsNaming(placeholder_dict[i][1]) :
                /\ rc1[1] = rc2[1]
                /\ rc1[2] < rc2[2]
                /\ LabelOf(rc1) # LabelOf(rc2)


----------------------------------------------------------------------------
(* Vocabulary of the properties of a pass over malformed rows *)

\* no value of the client holds a backslash, so that no template raises
BackslashFreeControls ==
    \A k \in DOMAIN client_controls.controls :
        Backslash \notin Range(client_controls.controls[k].value)

\* the rows with a cell of an unexpected type: an int where a text is read
MalformedRows ==
    {k \in DOMAIN compliance_sheet_data.rows :
        \E j \in DOMAIN compliance_sheet_data.rows[k].cells :
            IsInt(compliance_sheet_data.rows[k].cells[j].value)}

\* the rows with an identifier that have no such cell
WellFormedRowsWithId ==
    {k \in DOMAIN compliance_sheet_data.rows \ MalformedRows :
        /\ "compliance_id" \in DOMAIN ResolvedColumns
        /\ Truthy(CellValue(compliance_sheet_data.rows[k],
                            ResolvedColumns.compliance_id))}

\* C20 (as claimed): a pass of extract_compliance_items over a sheet with a
\* malformed row skips that row and returns the items of the other rows; no
\* exception leaves the pass because of the row.
C20_MalformedRowSkipped ==
    (pc = "extracted" /\ BackslashFreeControls) =>
        /\ ~raised
        /\ \A k \in WellFormedRowsWithId :
              \E i \in DOMAIN compliance_items :
                  compliance_items[i].compliance_id
                      = CellValue(compliance_sheet_data.rows[k],
                                  ResolvedColumns.compliance_id)


----------------------------------------------------------------------------
(* Vocabulary of the properties of parse_poam and of the run over benchmarks *)

\* the rows of the sheet with a given POAM ID
RowsWithPoamId(poam_id) ==
    {k \in DOMAIN poam_rows : PyStr(poam_rows[k][1]) = poam_id}

\* the findings of a list that come from rows with a given POAM ID
FindingsWithPoamId(scan_list, poam_id) ==
    {i \in DOMAIN scan_list : scan_list[i].poam_id = poam_id}

\* the benchmarks, by position in the dict of one call, that hold a Finding
\* of the row
GroupsOfRow(k) ==
    {g \in DOMAIN grouped_results :
        FindingsWithPoamId(grouped_results[g][2], PyStr(poam_rows[k][1])) # {}}

\* the benchmarks, by position in the run, reported with a Finding of the row
RunsOfRow(k) ==
    {b \in DOMAIN run_findings :
        FindingsWithPoamId(run_findings[b][2], PyStr(poam_rows[k][1])) # {}}

\* the processors of the registry that are asked for, in the order asked
AskedProcessors ==
    SelectIdx([k \in DOMAIN benchmarks_to_run |->
                  IF benchmarks_to_run[k] = "RHEL 8.X" THEN "RhelPoamProcessor"
                  ELSE "PostgresPoamProcessor"],
              {k \in DOMAIN benchmarks_to_run :
                  benchmarks_to_run[k] \in {"RHEL 8.X", "PostgreSQL15_CIS1.1.0"}}, 1)

\* the first of the processors asked for that accepts the row, or "none"
FirstAccepting(row) ==
    LET hits == {k \in DOMAIN AskedProcessors : can_process(AskedProcessors[k], row)}
    IN  IF hits = {} THEN "none"
        ELSE AskedProcessors[CHOOSE k \in hits : \A j \in hits : k <= j]

\* in one call of parse_poam a row has its Findings under the benchmark of
\* the first processor that accepts it, and under no other
OneCallFirstAccepting ==
    pc = "parsed" =>
        \A k \in DOMAIN poam_rows :
            \A g \in GroupsOfRow(k) :
                grouped_results[g][1] = benchmark_name(FirstAccepting(poam_rows[k]))

\* C18 (as claimed): a row goes to the first processor that accepts it, and
\* over the whole run of the benchmarks no row of the sheet has a Finding
\* under more than one benchmark.
C18_RowUnderOneBenchmark ==
    /\ OneCallFirstAccepting
    /\ pc = "running" =>
          \A k \in DOMAIN poam_rows : Cardinality(RunsOfRow(k)) <= 1

\* the row is pending: one of the columns R, V, W holds "pending" in any case
PendingRow(row) ==
    \E i \in {18, 22, 23} :
        /\ i <= Len(row)
        /\ row[i] # PyNone
        /\ Contains(Lower(row[i]), <<"p", "e", "n", "d", "i", "n", "g">>)

\* the pending rows that a processor asked for recognizes
RecognizedPendingRows ==
    {k \in DOMAIN poam_rows :
        /\ PendingRow(poam_rows[k])
        /\ FirstAccepting(poam_rows[k]) # "none"}

\* no Finding of the call comes from a pending row
NoFindingOfPendingRow ==
    pc = "parsed" =>
        \A k \in DOMAIN poam_rows :
            PendingRow(poam_rows[k]) => GroupsOfRow(k) = {}

\* C19 (as claimed): parse_poam returns no Finding of a pending row, and the
\* number of rows it reports as skipped is the number of pending rows that a
\* processor asked for recognizes.
C19_SkippedCount ==
    /\ NoFindingOfPendingRow
    /\ (pc = "parsed" /\ AskedProcessors # <<>>) =>
          Len(skipped_findings) = Cardinality(RecognizedPendingRows)


----------------------------------------------------------------------------
(* Vocabulary of the properties of a run with configuration gaps *)

\* no column of the control sheet is labeled exactly CLIENT
NoClientColumn ==
    \A k \in DOMAIN control_sheet_data.columns :
        control_sheet_data.columns[k].title # titleCLIENT

RegisteredBenchmarks == {"RHEL 8.X", "PostgreSQL15_CIS1.1.0"}

\* the benchmarks asked for that have a processor, in the order asked
RegisteredAsked ==
    SelectIdx(benchmarks_to_run,
              {k \in DOMAIN benchmarks_to_run :
                  benchmarks_to_run[k] \in RegisteredBenchmarks}, 1)

PoamParsed == pc = "parsed"

\* C21: without a column labeled exactly CLIENT extract_client_controls
\* returns the client with an empty list of values; parse_poam leaves out a
\* benchmark that has no processor, returning what it returns for the
\* others, and the empty result when none is left.
C21_ConfigurationGaps ==
    /\ (pc = "controls" /\ NoClientColumn) =>
          client_controls = [client |-> selected_client, controls |-> <<>>]
    /\ PoamParsed =>
          /\ grouped_results = parse_poam(poam_rows, RegisteredAsked).grouped_results
          /\ RegisteredAsked = <<>> => grouped_results = <<>>

C21_Witness ==
    /\ pc = "controls"
    /\ NoClientColumn
    /\ \E r \in DOMAIN control_sheet_data.rows :
          control_sheet_data.rows[r].cells[1].value = selected_client
    /\ client_controls.controls = <<>>
    /\ poam_rows # <<>>
    /\ benchmarks_to_run # <<>>
    /\ RegisteredAsked = <<>>
    /\ grouped_results = <<>>


----------------------------------------------------------------------------
(* Vocabulary of the properties of the field-to-column resolution *)

fragDeviationRationale == <<"d", "e", "v", "i", "a", "t", "i", "o", "n", " ", "r", "a", "t", "i", "o", "n", "a", "l", "e">>

fragStatus == <<"s", "t", "a", "t", "u", "s">>

\* the columns whose lowercased label holds "deviation rationale", without
\* and with "status"
RationaleColumns ==
    {k \in DOMAIN compliance_sheet_data.columns :
        /\ Contains(Lower(compliance_sheet_data.columns[k].title), fragDeviationRationale)
        /\ ~Contains(Lower(compliance_sheet_data.columns[k].title), fragStatus)}

RationaleStatusColumns ==
    {k \in DOMAIN compliance_sheet_data.columns :
        /\ Contains(Lower(compliance_sheet_data.columns[k].title), fragDeviationRationale)
        /\ Contains(Lower(compliance_sheet_data.columns[k].title), fragStatus)}

\* the fields that are resolved to a column
FieldsOfColumn(k) ==
    {f \in DOMAIN ResolvedColumns :
        ResolvedColumns[f] = compliance_sheet_data.columns[k].id}

\* C22 (as claimed): in both variants a column whose label holds "deviation
\* rationale" and not "status" is the column of deviation_rationale, a column
\* whose label holds both, in any position, is the column of
\* deviation_status, and no column is the column of two fields.
C22_RationaleAndStatusColumns ==
    pc = "extracted" =>
        /\ \A k \in RationaleColumns : FieldsOfColumn(k) = {"deviation_rationale"}
        /\ \A k \in RationaleStatusColumns : FieldsOfColumn(k) = {"deviation_status"}
        /\ \A k \in DOMAIN compliance_sheet_data.columns :
              Cardinality(FieldsOfColumn(k)) <= 1


----------------------------------------------------------------------------
(* Vocabulary of the properties of load_scan_results *)

\* the identifiers of a list of findings, in the order of the list
IdsOf(results) == [i \in DOMAIN results |-> results[i].compliance_id]

\* the table is in the Nessus format: a Unique ID cell holds "Compliance:"
NessusFormat(frame) ==
    /\ HasColumn(frame, colUniqueID)
    /\ \E r \in DOMAIN frame.rows :
          /\ IsTextCell(CellAt(frame, r, colUniqueID))
          /\ Contains(CellAt(frame, r, colUniqueID), txtComplianceColon)

\* the labels of the priority list that are columns of the table
PriorityLabels(frame) ==
    {k \in DOMAIN possible_id_cols : HasColumn(frame, possible_id_cols[k])}

FirstPriorityLabel(frame) ==
    possible_id_cols[CHOOSE k \in PriorityLabels(frame) :
                        \A j \in PriorityLabels(frame) : k <= j]

\* the trimmed texts of the cells of a column that are not empty, row by row
TrimmedCells(frame, col) ==
    JoinRows([r \in DOMAIN frame.rows |->
                 IF isna(CellAt(frame, r, col)) \/ IsZero(CellAt(frame, r, col))
                 THEN <<>>
                 ELSE <<Strip(StrOfCell(frame, r, col))>>], 1)

\* the identifier substrings of the Description cells, row by row
DescriptionIds(frame) ==
    JoinRows([r \in DOMAIN frame.rows |->
                 FindAllRhel(StrOfCell(frame, r, colDescription), 1)], 1)

\* "Plugin-" before each trimmed cell of the Plugin ID column that is not empty
PrefixedPluginIds(frame) ==
    [i \in DOMAIN TrimmedCells(frame, colPluginID) |->
        <<"P", "l", "u", "g", "i", "n", "-">> \o TrimmedCells(frame, colPluginID)[i]]

\* the identifiers the claimed resolution gives on a table
ClaimedIds(frame) ==
    IF PriorityLabels(frame) # {}
    THEN TrimmedCells(frame, FirstPriorityLabel(frame))
    ELSE IF HasColumn(frame, colDescription) /\ DescriptionIds(frame) # <<>>
    THEN DescriptionIds(frame)
    ELSE IF HasColumn(frame, colPluginID)
    THEN PrefixedPluginIds(frame)
    ELSE <<>>

\* C23 (as claimed): on a table that is not in the Nessus format the
\* identifiers of the findings are those of the first label of the priority
\* list that is a column; when no such label is a column they are the
\* identifier substrings of the Description cells, one finding for each; and
\* when there is none of these either they are made of the Plugin ID column.
C23_IdentifierResolution ==
    (pc = "loaded" /\ ~NessusFormat(df)) => IdsOf(scan_results) = ClaimedIds(df)


\* the pass took the fallback: the findings are made of the Plugin ID column
FallbackTaken == \E coerces \in BOOLEAN : LoadPath(df, coerces) = "plugin"

\* the identifiers the pass made of the Plugin ID column
FallbackIds == IF FallbackTaken THEN Range(IdsOf(scan_results)) ELSE {}

\* the identifiers the other paths produced in the pass: those of the
\* findings when the pass returned on another path, and those the loop over
\* the Description cells found before the fallback was taken
OtherPathIds ==
    IF ~FallbackTaken THEN Range(IdsOf(scan_results))
    ELSE IF HasColumn(df, colDescription) THEN Range(DescriptionIds(df))
    ELSE {}

\* C24: every finding made of the fallback Plugin ID column has the
\* identifier "Plugin-" followed by the trimmed plugin id, and within one
\* pass no such identifier equals an identifier that another path produced.
C24_FallbackIdentifiers ==
    pc = "loaded" =>
        /\ FallbackTaken => IdsOf(scan_results) = PrefixedPluginIds(df)
        /\ FallbackIds \cap OtherPathIds = {}

\* a pass that looked for identifiers in the Description, found none and
\* made a finding of a Plugin ID
C24_Witness ==
    /\ pc = "loaded"
    /\ FallbackTaken
    /\ HasColumn(df, colDescription)
    /\ scan_results # <<>>


----------------------------------------------------------------------------
(* Vocabulary of the properties of the matched items *)

\* the value is present: not None and not the empty text
Present(v) == v # PyNone /\ v # <<>>

\* the matched item m is the one the POAM-mode matcher is said to build of
\* the Finding f and the RegisterItem r
BuiltOfPair(m, f, r) ==
    /\ DOMAIN r \subseteq DOMAIN m
    /\ \A field \in DOMAIN r \ {"srg_solution"} : m[field] = r[field]
    /\ m.Status = f.status
    /\ m.Severity = f.severity
    /\ m.Hostname = f.hostname
    /\ m["POAM ID"] = f.poam_id
    /\ m["Finding Description"] =
          (IF Present(r.finding_description)
           THEN r.finding_description ELSE f.description)
    /\ m.srg_solution = f.srg_solution

DistinctIds(items) ==
    /\ \A i \in DOMAIN items : Present(items[i].compliance_id)
    /\ \A i, k \in DOMAIN items :
          i # k => items[i].compliance_id # items[k].compliance_id

\* the identifiers of a list are present and pairwise distinct once trimmed
DistinctTrimmedIds(items) ==
    /\ \A i \in DOMAIN items : Present(items[i].compliance_id)
    /\ \A i, k \in DOMAIN items : i # k => Key(items[i]) # Key(items[k])

\* the items of a list the matcher accounts for: one for each matched
\* identifier, and the unmatched ones
AccountedFor(unmatched) == result.match_count + Len(unmatched)

----------------------------------------------------------------------------
(* Vocabulary of the properties of categorize_findings *)

\* a step of categorize_findings
CategorizeStep == pc = "compared" /\ pc' = "categorized"

\* C26 (as claimed): categorize_findings reads the ComparisonResult and
\* leaves it as it was: matched_items with every key and value, both
\* unmatched lists and the three counts are the same after the call.
C26_ComparisonReadOnly == [][CategorizeStep => result' = result]_vars


\* the items categorize_findings is given, in the order it takes them
CategorizerInputs == result.matched_items \o result.unmatched_smartsheet_items

\* should_fix is not true and the status text holds an approval indicator
ApprovalCase(item) ==
    /\ item.should_fix # PyTrue
    /\ HasWord(item.deviation_status, ApprovalWords)

\* how many items of a list are approval cases
ApprovalCases(items) == Cardinality({i \in DOMAIN items : ApprovalCase(items[i])})

BucketOf(item) ==
    CHOOSE b \in StatusBuckets : categorize_item(NoFindings, item, <<>>)[b] # <<>>


\* C28: an item whose should_fix is None is bucketed as the same item with
\* should_fix false is.
C28_NoneAsFalse ==
    pc = "categorized" =>
        \A b \in StatusBuckets : \A i \in DOMAIN findings[b] :
            findings[b][i].should_fix = PyNone =>
                b = BucketOf([findings[b][i] EXCEPT !.should_fix = PyFalse])

\* items without a should_fix value have been bucketed as review and as
\* unassessed
C28_Witness ==
    /\ pc = "categorized"
    /\ \E i \in DOMAIN findings.review : findings.review[i].should_fix = PyNone
    /\ \E i \in DOMAIN findings.unassessed : findings.unassessed[i].should_fix = PyNone


----------------------------------------------------------------------------
(* Vocabulary of the properties of the order of the placeholder loop *)

\* the placeholder map of the client, as the list of its (name, value) pairs
PlaceholderPairs == to_dict(client_controls.controls)

\* the lists that hold the pairs of the map in some order
PairOrders ==
    {[i \in DOMAIN PlaceholderPairs |-> PlaceholderPairs[p[i]]] :
        p \in Orderings(DOMAIN PlaceholderPairs)}

\* the rationale the variant that ran makes of the text with the pairs
\* applied in the given order
SubstituteIn(order) ==
    IF mode = "poam"
    THEN SubstitutePoam(rationale.original_text, order)
    ELSE SubstituteCsv(rationale.compliance_id, rationale.original_text, order)

\* the substituted rationale is the same for every order of the pairs
OrderIndependent == \A o \in PairOrders : SubstituteIn(o) = rationale.updated_text

\* two orders of the pairs give different rationales
OrderDependent == \E o1, o2 \in PairOrders : SubstituteIn(o1) # SubstituteIn(o2)

\* the text holds a bracket-delimited token
HasToken(text) ==
    \E i, j \in DOMAIN text : i < j /\ text[i] = "[" /\ text[j] = "]"

TokenOf(name) == <<"[">> \o name \o <<"]">>

\* the value of pair k holds the token of the name of another pair l
ChainedPairs ==
    {kl \in (DOMAIN PlaceholderPairs) \X (DOMAIN PlaceholderPairs) :
        /\ kl[1] # kl[2]
        /\ TokenIn(PlaceholderPairs[kl[1]][2], TokenOf(PlaceholderPairs[kl[2]][1]))}

NamesDifferBeyondCase ==
    \A k, l \in DOMAIN PlaceholderPairs :
        k # l => Lower(PlaceholderPairs[k][1]) # Lower(PlaceholderPairs[l][1])

\* the text holds the token of a name whose value holds the token of another
ChainedTokenIn(text) ==
    \E kl \in ChainedPairs : TokenIn(text, TokenOf(PlaceholderPairs[kl[1]][1]))

C30_WitnessChained ==
    /\ pc = "substituted"
    /\ ChainedTokenIn(rationale.original_text)

====
